---- MODULE Spec2Model ----
(***************************************************************************)
(* Model of the UserModule backend (FastAPI + SQLAlchemy on PostgreSQL):   *)
(* the device pairing state machine (routers/devices.py, models/device.py),*)
(* the invitation lifecycle (routers/invitations.py, models/invitation.py, *)
(* the invitation branch of routers/auth.py), the JSON web tokens          *)
(* (utils/auth.py, routers/auth.py) and the management of users            *)
(* (models/user.py, routers/users.py).                                     *)
(*                                                                         *)
(* Rows are functions from a finite set of keys to records with an         *)
(* "exists" flag.  Time is a clock in minutes.  A request handler is one   *)
(* action (its reads, writes and commit); the concurrent specification     *)
(* splits link_device at its database round trips.                         *)
(***************************************************************************)
EXTENDS Integers, FiniteSets, Sequences, TLC

VARIABLES now, users, companies, devices, invitations, last, procs, probe,
          issued, settings

vars ==
    <<now, users, companies, devices, invitations, last, procs, probe, issued,
      settings>>

----------------------------------------------------------------------------
(* Values *)

NULL == "NULL"

\* "is None" for a column that holds either NULL or a number.
IsNull(v) == ToString(v) = ToString(NULL)

\* settings = get_settings(): the Settings object every module imports.
ENCRYPTION_KEY == "key0"
StartupSettings == [ENCRYPTION_KEY |-> ENCRYPTION_KEY]

UserIds == {"u1", "u2", "u3", "u4"}
CompanyIds == {"t1", "t2"}
DeviceIds == {"d1", "d2"}
DeviceNames == {"Lobby TV"}
Procs == {"p1", "p2"}

\* random.choices(string.digits, k=4): any of "0000".."9999"
RouterCodes == {"0420", "7392"}

\* str(random.randint(1000, 9999)): any of "1000".."9999"
ModelCodes == {"7392"}

\* settings.DEVICE_CODE_EXPIRE_MINUTES
DEVICE_CODE_EXPIRE_MINUTES == 15

\* settings.DEVICE_OFFLINE_TIMEOUT_MINUTES
DEVICE_OFFLINE_TIMEOUT_MINUTES == 5

\* settings.INVITATION_TOKEN_EXPIRE_HOURS
INVITATION_TOKEN_EXPIRE_HOURS == 72

\* Number of rows the invitations table can hold.
MaxInvitations == 2

InvIds == 1 .. MaxInvitations

\* Printed form of an invitation key (its uuid, its token).
InvName(i) == <<"i1", "i2", "i3", "i4">>[i]

\* Addresses an invitation is requested for: a registered one and two new.
InviteEmails == {"user@t1", "new1@mail", "new2@mail"}

\* InvitationCreate.role is a free string; no handler reads it.
InviteRoles == {"user"}

\* Google accounts that sign in while invitations are out: an address
\* that is not registered.
GoogleEmails == {"new1@mail"}

\* The clock of the invitation specification stops here (minutes).
MaxInviteTime == 4321

\* Amounts by which the clock advances between two invitation requests.
InviteTickSteps ==
    {INVITATION_TOKEN_EXPIRE_HOURS * 60, INVITATION_TOKEN_EXPIRE_HOURS * 60 + 1}

\* Largest clock reading and deadline Invitation.is_valid is probed with.
MaxProbeTime == 4

\* The clock of the heartbeat specification stops here.
MaxBeatTime == 7

\* The clock of the device specifications stops here.
MaxTime == 16

\* Amounts by which the clock advances between two requests.
TickSteps == {DEVICE_CODE_EXPIRE_MINUTES, DEVICE_CODE_EXPIRE_MINUTES + 1}

----------------------------------------------------------------------------
(* The identity directory the device requests run against: a super admin  *)
(* (no tenant), an admin and a user of tenant t1, a user of tenant t2.     *)

UserRow(email, role, company_id, can_add_devices) ==
    [exists |-> TRUE, email |-> email, google_id |-> NULL,
     full_name |-> "name", profile_picture_url |-> NULL, role |-> role,
     company_id |-> company_id, can_add_devices |-> can_add_devices,
     is_active |-> TRUE, last_login |-> NULL]

Directory ==
    [u \in UserIds |->
        CASE u = "u1" -> UserRow("root@corp", "super_admin", NULL, TRUE)
          [] u = "u2" -> UserRow("admin@t1", "admin", "t1", TRUE)
          [] u = "u3" -> UserRow("user@t2", "user", "t2", TRUE)
          [] OTHER    -> UserRow("user@t1", "user", "t1", FALSE)]

Tenants ==
    [t \in CompanyIds |->
        [exists |-> TRUE, is_active |-> TRUE, max_users |-> 10,
         max_devices |-> IF t = "t1" THEN 1 ELSE 5]]

\* A key of the devices table that holds no row.
NoDevice ==
    [exists |-> FALSE, user_id |-> NULL, company_id |-> NULL,
     device_name |-> NULL, device_code |-> NULL, is_online |-> FALSE,
     is_linked |-> FALSE, current_playlist_id |-> NULL, last_seen |-> NULL,
     created_at |-> NULL, linked_at |-> NULL]

\* Column defaults of a newly inserted Device row.
NewDevice(name, code, t) ==
    [exists |-> TRUE, user_id |-> NULL, company_id |-> NULL,
     device_name |-> name, device_code |-> code, is_online |-> TRUE,
     is_linked |-> FALSE, current_playlist_id |-> NULL, last_seen |-> NULL,
     created_at |-> t, linked_at |-> NULL]

\* A key of the invitations table that holds no row.
NoInvitation ==
    [exists |-> FALSE, email |-> NULL, role |-> NULL, company_id |-> NULL,
     invited_by |-> NULL, token |-> NULL, status |-> NULL,
     expires_at |-> NULL, created_at |-> NULL, accepted_at |-> NULL]

NoRequest == [op |-> "none", caller |-> NULL, arg |-> NULL, status |-> 0]

Request(op, caller, arg, status) ==
    [op |-> op, caller |-> caller, arg |-> arg, status |-> status]

----------------------------------------------------------------------------
(* Storage helpers *)

\* UNIQUE(device_code): no other row may hold the code (NULLs never clash).
CodeTaken(devs, d, code) ==
    \E e \in DeviceIds : e # d /\ devs[e].exists /\ devs[e].device_code = code

\* db.query(Device).filter(Device.device_code == code).first()
DeviceByCode(code) ==
    IF \E d \in DeviceIds : devices[d].exists /\ devices[d].device_code = code
    THEN CHOOSE d \in DeviceIds :
             devices[d].exists /\ devices[d].device_code = code
    ELSE NULL

\* get_current_user: the bearer of a valid access token is an existing,
\* active user; anything else is answered 401 before the handler runs.
Authenticated(u) == users[u].exists /\ users[u].is_active

----------------------------------------------------------------------------
(* routers/devices.py *)

\* Variant: a new code also resets is_linked, as Device.regenerate_code does.
GenExisting_Unlinks(row, name, code) ==
    [row EXCEPT !.device_code = code, !.device_name = name,
                !.is_online = TRUE, !.is_linked = FALSE]

GenExisting(row, name, code) ==
    [row EXCEPT !.device_code = code, !.device_name = name, !.is_online = TRUE]

generate_device_code(d, name, code) ==
    LET row == IF devices[d].exists
               THEN GenExisting(devices[d], name, code)
               ELSE NewDevice(name, code, now)
    IN  /\ IF CodeTaken(devices, d, code)
           THEN /\ devices' = devices
                /\ last' = Request("generate_device_code", NULL, d, 500)
           ELSE /\ devices' = [devices EXCEPT ![d] = row]
                /\ last' = Request("generate_device_code", NULL, d, 200)
        /\ UNCHANGED <<settings, now, users, companies, invitations, procs, probe, issued>>

\* Variant: the code is not cleared when the device is linked.
LinkWrite_KeepCode(row, u) ==
    [row EXCEPT !.user_id = u, !.company_id = users[u].company_id,
                !.is_linked = TRUE]

LinkWrite(row, u) ==
    [row EXCEPT !.user_id = u, !.company_id = users[u].company_id,
                !.is_linked = TRUE, !.device_code = NULL]

LinkRejectsLinked(row) == row.is_linked

link_device(u, code) ==
    LET d == DeviceByCode(code)
        status == IF ~Authenticated(u) THEN 401
                  ELSE IF ~users[u].can_add_devices THEN 403
                  ELSE IF d = NULL THEN 404
                  ELSE IF LinkRejectsLinked(devices[d]) THEN 409
                  ELSE 200
    IN  /\ devices' = IF status = 200
                      THEN [devices EXCEPT ![d] = LinkWrite(devices[d], u)]
                      ELSE devices
        /\ last' = Request("link_device", u, code, status)
        /\ UNCHANGED <<settings, now, users, companies, invitations, procs, probe, issued>>

delete_device(u, d) ==
    LET found == devices[d].exists /\ devices[d].user_id = u
        status == IF ~Authenticated(u) THEN 401
                  ELSE IF ~found THEN 404
                  ELSE 200
    IN  /\ devices' = IF status = 200
                      THEN [devices EXCEPT ![d] = NoDevice]
                      ELSE devices
        /\ last' = Request("delete_device", u, d, status)
        /\ UNCHANGED <<settings, now, users, companies, invitations, procs, probe, issued>>

\* Time passes between two requests.
Tick ==
    /\ \E dt \in TickSteps : now + dt <= MaxTime /\ now' = now + dt
    /\ UNCHANGED <<settings, users, companies, devices, invitations, last, procs, probe, issued>>

----------------------------------------------------------------------------
(* Device requests, each executed atomically *)

InitDevices ==
    /\ now = 0
    /\ users = Directory
    /\ companies = Tenants
    /\ devices = [d \in DeviceIds |-> NoDevice]
    /\ invitations = [i \in InvIds |-> NoInvitation]
    /\ last = NoRequest
    /\ procs = << >>
    /\ issued = {}
    /\ settings = StartupSettings
    /\ probe = << >>

RouterGenerate ==
    \E d \in DeviceIds, name \in DeviceNames, code \in RouterCodes :
        generate_device_code(d, name, code)

RouterLink == \E u \in UserIds, code \in RouterCodes : link_device(u, code)

RouterDelete == \E u \in UserIds, d \in DeviceIds : delete_device(u, d)

NextRouter == RouterGenerate \/ RouterLink \/ RouterDelete \/ Tick

SpecRouter == InitDevices /\ [][NextRouter]_vars

----------------------------------------------------------------------------
(* models/device.py: the Device methods, each followed by the commit of    *)
(* its session.  A commit that breaks UNIQUE(device_code) fails and leaves *)
(* the stored row as it was.  SpecDevice runs the router requests and the  *)
(* methods within one reading of the clock.                                *)

Device_generate_device_code == ModelCodes

RegenerateRow(row, code) ==
    [row EXCEPT !.device_code = code, !.is_linked = FALSE]

LinkToUserRow(row, user_id, company_id, t) ==
    [row EXCEPT !.user_id = user_id, !.company_id = company_id,
                !.is_linked = TRUE, !.linked_at = t, !.device_code = NULL]

\* Variant: unlink_from_user keeps the time of the link.
UnlinkRow_KeepLinkedAt(row, code) ==
    RegenerateRow([row EXCEPT !.user_id = NULL, !.company_id = NULL,
                              !.is_linked = FALSE,
                              !.current_playlist_id = NULL], code)

UnlinkRow(row, code) ==
    RegenerateRow([row EXCEPT !.user_id = NULL, !.company_id = NULL,
                              !.is_linked = FALSE, !.linked_at = NULL,
                              !.current_playlist_id = NULL], code)

HeartbeatRow(row, t) == [row EXCEPT !.last_seen = t, !.is_online = TRUE]

\* total_seconds() of (utcnow() - created_at) against expire_minutes * 60
Device_is_code_expired(row, t) ==
    IF row.device_code = NULL \/ row.is_linked
    THEN FALSE
    ELSE (t - row.created_at) * 60 > DEVICE_CODE_EXPIRE_MINUTES * 60

CommitDevice(d, row, op) ==
    /\ IF row.device_code # NULL /\ CodeTaken(devices, d, row.device_code)
       THEN devices' = devices
       ELSE devices' = [devices EXCEPT ![d] = row]
    /\ last' = Request(op, NULL, d, 0)
    /\ UNCHANGED <<settings, now, users, companies, invitations, procs, probe, issued>>

Device_regenerate_code(d) ==
    /\ devices[d].exists
    /\ \E code \in Device_generate_device_code :
           CommitDevice(d, RegenerateRow(devices[d], code),
                        "Device.regenerate_code")

Device_link_to_user(d, user_id, company_id) ==
    /\ devices[d].exists
    /\ CommitDevice(d, LinkToUserRow(devices[d], user_id, company_id, now),
                    "Device.link_to_user")

Device_unlink_from_user(d) ==
    /\ devices[d].exists
    /\ \E code \in Device_generate_device_code :
           CommitDevice(d, UnlinkRow(devices[d], code),
                        "Device.unlink_from_user")

Device_update_heartbeat(d) ==
    /\ devices[d].exists
    /\ CommitDevice(d, HeartbeatRow(devices[d], now),
                    "Device.update_heartbeat")

ModelRegenerate == \E d \in DeviceIds : Device_regenerate_code(d)

\* called as device.link_to_user(user.id, user.company_id)
ModelLink ==
    \E d \in DeviceIds, u \in UserIds :
        Device_link_to_user(d, u, users[u].company_id)

ModelUnlink == \E d \in DeviceIds : Device_unlink_from_user(d)

ModelHeartbeat == \E d \in DeviceIds : Device_update_heartbeat(d)

NextDevice ==
    \/ RouterGenerate \/ RouterLink \/ RouterDelete
    \/ ModelRegenerate \/ ModelLink \/ ModelUnlink \/ ModelHeartbeat

SpecDevice == InitDevices /\ [][NextDevice]_vars

----------------------------------------------------------------------------
(* link_device as it runs against PostgreSQL (READ COMMITTED, the engine's *)
(* default): the SELECT by code, the check of is_linked on the loaded      *)
(* object, and the commit, whose flush is UPDATE devices SET <the changed  *)
(* columns> WHERE id = <primary key>.  Two requests interleave at these    *)
(* points; nothing locks the row between the SELECT and the UPDATE.        *)

Idle == [pc |-> "idle", caller |-> NULL, code |-> NULL, dev |-> NULL,
         row |-> NoDevice, status |-> 0]

Done(u, code, d, status) ==
    [pc |-> "done", caller |-> u, code |-> code, dev |-> d,
     row |-> NoDevice, status |-> status]

\* The columns the session changed, written over the row as it is now.
FlushUpdate(cur, loaded, new) ==
    [f \in DOMAIN cur |-> IF new[f] # loaded[f] THEN new[f] ELSE cur[f]]

LinkRead(p, u, code) ==
    LET d == DeviceByCode(code)
    IN  /\ procs[p].pc = "idle"
        /\ procs' = [procs EXCEPT ![p] =
              IF ~Authenticated(u) THEN Done(u, code, NULL, 401)
              ELSE IF ~users[u].can_add_devices THEN Done(u, code, NULL, 403)
              ELSE IF d = NULL THEN Done(u, code, NULL, 404)
              ELSE [pc |-> "read", caller |-> u, code |-> code, dev |-> d,
                    row |-> devices[d], status |-> 0]]
        /\ UNCHANGED <<settings, now, users, companies, devices, invitations, last, probe, issued>>

LinkCheck(p) ==
    /\ procs[p].pc = "read"
    /\ procs' = [procs EXCEPT ![p] =
          IF LinkRejectsLinked(procs[p].row)
          THEN Done(procs[p].caller, procs[p].code, procs[p].dev, 409)
          ELSE [procs[p] EXCEPT !.pc = "checked"]]
    /\ UNCHANGED <<settings, now, users, companies, devices, invitations, last, probe, issued>>

LinkCommit(p) ==
    LET d == procs[p].dev
        u == procs[p].caller
        loaded == procs[p].row
    IN  /\ procs[p].pc = "checked"
        /\ IF devices[d].exists
           THEN /\ devices' = [devices EXCEPT ![d] =
                       FlushUpdate(devices[d], loaded, LinkWrite(loaded, u))]
                /\ procs' = [procs EXCEPT ![p] = Done(u, procs[p].code, d, 200)]
           ELSE /\ devices' = devices
                /\ procs' = [procs EXCEPT ![p] = Done(u, procs[p].code, d, 500)]
        /\ UNCHANGED <<settings, now, users, companies, invitations, last, probe, issued>>

InitLink ==
    /\ now = 0
    /\ users = Directory
    /\ companies = Tenants
    /\ devices = [d \in DeviceIds |-> NoDevice]
    /\ invitations = [i \in InvIds |-> NoInvitation]
    /\ last = NoRequest
    /\ procs = [p \in Procs |-> Idle]
    /\ issued = {}
    /\ settings = StartupSettings
    /\ probe = << >>

ConcRead == \E p \in Procs, u \in UserIds, code \in RouterCodes : LinkRead(p, u, code)

ConcCheck == \E p \in Procs : LinkCheck(p)

ConcCommit == \E p \in Procs : LinkCommit(p)

NextLink == RouterGenerate \/ ConcRead \/ ConcCheck \/ ConcCommit

SpecLink == InitLink /\ [][NextLink]_vars

\* C1: of two concurrent link_device requests that present the same code of
\* the same device at most one is answered 200.
C1_AtMostOneWinner ==
    \A p, q \in Procs :
        (/\ p # q
         /\ procs[p].pc = "done" /\ procs[q].pc = "done"
         /\ procs[p].dev = procs[q].dev
         /\ procs[p].code = procs[q].code)
            => ~(procs[p].status = 200 /\ procs[q].status = 200)


----------------------------------------------------------------------------
(* models/invitation.py *)

TerminalStatuses == {"accepted", "expired", "cancelled"}
InvitationStatuses == {"pending"} \cup TerminalStatuses

\* Variant: the invitation counts as expired at its deadline already.
Invitation_is_expired_AtDeadline(row, t) == t >= row.expires_at

Invitation_is_expired(row, t) == t > row.expires_at

Invitation_is_valid(row, t) ==
    row.status = "pending" /\ ~Invitation_is_expired(row, t)

AcceptedRow(row, t) == [row EXCEPT !.status = "accepted", !.accepted_at = t]

ExpiredRow(row) == [row EXCEPT !.status = "expired"]

CancelledRow(row) == [row EXCEPT !.status = "cancelled"]

CommitInvitation(i, row, op) ==
    /\ invitations[i].exists
    /\ invitations' = [invitations EXCEPT ![i] = row]
    /\ last' = Request(op, NULL, InvName(i), 0)
    /\ UNCHANGED <<settings, now, users, companies, devices, procs, probe, issued>>

Invitation_mark_as_accepted(i) ==
    CommitInvitation(i, AcceptedRow(invitations[i], now),
                     "Invitation.mark_as_accepted")

Invitation_mark_as_expired(i) ==
    CommitInvitation(i, ExpiredRow(invitations[i]),
                     "Invitation.mark_as_expired")

Invitation_mark_as_cancelled(i) ==
    CommitInvitation(i, CancelledRow(invitations[i]),
                     "Invitation.mark_as_cancelled")

----------------------------------------------------------------------------
(* routers/invitations.py *)

\* require_admin: role_checker after get_current_user
RequireAdmin(u) ==
    IF ~Authenticated(u) THEN 401
    ELSE IF users[u].role \notin {"super_admin", "admin"} THEN 403
    ELSE 200

\* db.query(User).filter(User.email == email).first()
UserWithEmail(email) ==
    \E u \in UserIds : users[u].exists /\ users[u].email = email

\* Variant: the query for a pending invitation is left out.
PendingExists_Never(email) == FALSE

\* db.query(Invitation).filter(email == ..., status == "pending").first()
PendingExists(email) ==
    \E i \in InvIds : /\ invitations[i].exists
                      /\ invitations[i].email = email
                      /\ invitations[i].status = "pending"

FreeInvIds == {i \in InvIds : ~invitations[i].exists}

\* The row send_invitation inserts; secrets.token_urlsafe(32) is a fresh
\* value, written here as the key of the row.
NewInvitation(i, email, role, u, t) ==
    [exists |-> TRUE, email |-> email, role |-> role,
     company_id |-> users[u].company_id, invited_by |-> u,
     token |-> InvName(i), status |-> "pending",
     expires_at |-> t + INVITATION_TOKEN_EXPIRE_HOURS * 60,
     created_at |-> t, accepted_at |-> NULL]

\* company_id of the request body is validated and never read.
send_invitation(u, email, role, company_id) ==
    LET status == IF RequireAdmin(u) # 200 THEN RequireAdmin(u)
                  ELSE IF UserWithEmail(email) THEN 409
                  ELSE IF PendingExists(email) THEN 409
                  ELSE IF users[u].company_id = NULL THEN 500
                  ELSE 201
    IN  /\ status = 201 => FreeInvIds # {}
        /\ invitations' =
              IF status = 201
              THEN LET i == CHOOSE j \in FreeInvIds :
                                 \A k \in FreeInvIds : j <= k
                   IN  [invitations EXCEPT ![i] =
                           NewInvitation(i, email, role, u, now)]
              ELSE invitations
        /\ last' = Request("send_invitation", u, email, status)
        /\ UNCHANGED <<settings, now, users, companies, devices, procs, probe, issued>>

cancel_invitation(u, i) ==
    LET found == /\ invitations[i].exists
                 /\ invitations[i].company_id = users[u].company_id
        status == IF RequireAdmin(u) # 200 THEN RequireAdmin(u)
                  ELSE IF ~found THEN 404
                  ELSE 200
    IN  /\ invitations' =
              IF status = 200
              THEN [invitations EXCEPT ![i] = CancelledRow(invitations[i])]
              ELSE invitations
        /\ last' = Request("cancel_invitation", u, InvName(i), status)
        /\ UNCHANGED <<settings, now, users, companies, devices, procs, probe, issued>>

----------------------------------------------------------------------------
(* utils/auth.py: JSON web tokens.  A token is the record of its claims    *)
(* and of the key its signature was made with; a claim the payload does    *)
(* not carry reads NULL, as payload.get() returns None.  Times are minutes *)
(* (jwt.encode writes exp and iat as whole seconds).                       *)

\* settings.ACCESS_TOKEN_EXPIRE_MINUTES
ACCESS_TOKEN_EXPIRE_MINUTES == 30

\* settings.REFRESH_TOKEN_EXPIRE_DAYS
REFRESH_TOKEN_EXPIRE_DAYS == 7

\* settings.SECRET_KEY, and a key that is not the server's
SECRET_KEY == "SECRET_KEY"
OtherKey == "other key"

TokenTypes == {"access", "refresh"}

\* str(user.id): the printed form of a user's uuid.
UuidStr(u) ==
    CASE u = "u1" -> "uuid-1" [] u = "u2" -> "uuid-2"
      [] u = "u3" -> "uuid-3" [] OTHER -> "uuid-4"

\* uuid.UUID(s): the uuid a string prints, or ValueError / AttributeError
\* (None has no replace()).
uuid_UUID(s) ==
    IF \E u \in UserIds : UuidStr(u) = s
    THEN CHOOSE u \in UserIds : UuidStr(u) = s
    ELSE "ValueError"

create_access_token(user_id, email, role, company_id, t) ==
    [sub |-> UuidStr(user_id), email |-> email, role |-> role,
     company_id |-> company_id, type |-> "access",
     exp |-> t + ACCESS_TOKEN_EXPIRE_MINUTES, iat |-> t, key |-> SECRET_KEY]

create_refresh_token(user_id, email, t) ==
    [sub |-> UuidStr(user_id), email |-> email, role |-> NULL,
     company_id |-> NULL, type |-> "refresh",
     exp |-> t + REFRESH_TOKEN_EXPIRE_DAYS * 24 * 60, iat |-> t,
     key |-> SECRET_KEY]

\* create_token_response(user) for the row of key u, at time t.
create_token_response(u, row, t) ==
    [access_token |-> create_access_token(u, row.email, row.role,
                                          row.company_id, t),
     refresh_token |-> create_refresh_token(u, row.email, t),
     token_type |-> "bearer",
     expires_in |-> ACCESS_TOKEN_EXPIRE_MINUTES * 60]

\* No token: the origin of the tokens a sign-in hands out.
NoToken ==
    [sub |-> NULL, email |-> NULL, role |-> NULL, company_id |-> NULL,
     type |-> NULL, exp |-> 0, iat |-> 0, key |-> NULL]

\* What a step adds to the tokens in circulation: the tokens of a response,
\* each with the refresh token it was obtained with.
Minted(response, origin) ==
    {[token |-> tok, origin |-> origin] :
        tok \in {response.access_token, response.refresh_token}}

\* HTTPException(status_code, detail, headers)
HTTPException(status_code, detail, headers) ==
    [status_code |-> status_code, detail |-> detail, headers |-> headers]

\* The one exception object verify_token builds before its try block.
credentials_exception ==
    HTTPException(401, "Could not validate credentials",
                  "WWW-Authenticate: Bearer")

Raised(e) == [ok |-> FALSE, error |-> e]

Returned(v) == [ok |-> TRUE, value |-> v]

\* Variant: a token is expired from the instant of its exp claim.
jwt_decode_AtExp(token, key, t) ==
    IF token.key # key THEN "JWTError"
    ELSE IF token.exp <= t THEN "ExpiredSignatureError"
    ELSE "payload"

\* jwt.decode(token, key, algorithms=[...]) of python-jose: the signature
\* is verified first, then the exp claim, which has expired when exp < now.
jwt_decode(token, key, t) ==
    IF token.key # key THEN "JWTError"
    ELSE IF token.exp < t THEN "ExpiredSignatureError"
    ELSE "payload"

\* Variant: the type claim is not compared.
TypeMismatch_Never(payload, expected_type) == FALSE

\* token_type = payload.get("type"); if token_type != expected_type
TypeMismatch(payload, expected_type) == payload.type # expected_type

\* Variant: the handler of JWTError reports the error it caught.
verify_token_Leaky(token, expected_type, t) ==
    IF jwt_decode(token, SECRET_KEY, t) # "payload"
    THEN Raised(HTTPException(401, jwt_decode(token, SECRET_KEY, t),
                              "WWW-Authenticate: Bearer"))
    ELSE IF TypeMismatch(token, expected_type)
    THEN Raised(credentials_exception)
    ELSE IF token.sub = NULL THEN Raised(credentials_exception)
    ELSE Returned(token)

verify_token(token, expected_type, t) ==
    IF jwt_decode(token, SECRET_KEY, t) # "payload"
    THEN Raised(credentials_exception)
    ELSE IF TypeMismatch(token, expected_type)
    THEN Raised(credentials_exception)
    ELSE IF token.sub = NULL THEN Raised(credentials_exception)
    ELSE Returned(token)

\* get_current_user(token): the key of the user row, or the exception.
\* Variant: get_current_user does not look at is_active.
get_current_user_AnyAccount(token, t) ==
    LET v == verify_token(token, "access", t)
        user_id == uuid_UUID(v.value.sub)
    IN  IF ~v.ok THEN v
        ELSE IF user_id = "ValueError"
        THEN Raised(HTTPException(401, "Invalid user ID in token", NULL))
        ELSE IF ~users[user_id].exists
        THEN Raised(HTTPException(401, "User not found", NULL))
        ELSE Returned(user_id)

get_current_user(token, t) ==
    LET v == verify_token(token, "access", t)
        user_id == uuid_UUID(v.value.sub)
    IN  IF ~v.ok THEN v
        ELSE IF user_id = "ValueError"
        THEN Raised(HTTPException(401, "Invalid user ID in token", NULL))
        ELSE IF ~users[user_id].exists
        THEN Raised(HTTPException(401, "User not found", NULL))
        ELSE IF ~users[user_id].is_active
        THEN Raised(HTTPException(401, "User account is inactive", NULL))
        ELSE Returned(user_id)

\* The answer of a token endpoint: as Request, with the response body.
Response(op, caller, arg, status, body) ==
    [op |-> op, caller |-> caller, arg |-> arg, status |-> status,
     body |-> body]

\* routers/auth.py get_current_user_info: GET /me behind get_current_user
get_current_user_info(token) ==
    LET r == get_current_user(token, now)
    IN  /\ last' = IF r.ok
                   THEN Response("get_current_user_info", r.value, token, 200,
                                 users[r.value].email)
                   ELSE Response("get_current_user_info", NULL, token,
                                 r.error.status_code, r.error.detail)
        /\ UNCHANGED <<settings, now, users, companies, devices, invitations, procs,
                       probe, issued>>

\* routers/auth.py verify_access_token: the body of its 200 response
verify_access_token(token, t) ==
    LET r == verify_token(token, "access", t)
    IN  IF r.ok
        THEN [valid |-> TRUE, user_id |-> r.value.sub, email |-> r.value.email,
              role |-> r.value.role, company_id |-> r.value.company_id,
              expires_at |-> r.value.exp]
        ELSE [valid |-> FALSE, error |-> "Invalid or expired token"]

\* Variant: a refresh token is accepted once; it is refused after a pair
\* has been issued from it.
refresh_access_token_Rotating(token, t) ==
    LET v == verify_token(token, "refresh", t)
        user_id == uuid_UUID(v.value.sub)
    IN  IF ~v.ok THEN v
        ELSE IF \E m \in issued : m.origin = token
        THEN Raised(HTTPException(401, "Invalid refresh token", NULL))
        ELSE IF user_id = "ValueError"
        THEN Raised(HTTPException(401, "Invalid refresh token", NULL))
        ELSE IF ~users[user_id].exists \/ ~users[user_id].is_active
        THEN Raised(HTTPException(401, "User not found or inactive", NULL))
        ELSE Returned(create_token_response(user_id, users[user_id], t))

\* refresh_access_token(refresh_token, db): the token response, or the
\* exception.
refresh_access_token(token, t) ==
    LET v == verify_token(token, "refresh", t)
        user_id == uuid_UUID(v.value.sub)
    IN  IF ~v.ok THEN v
        ELSE IF user_id = "ValueError"
        THEN Raised(HTTPException(401, "Invalid refresh token", NULL))
        ELSE IF ~users[user_id].exists \/ ~users[user_id].is_active
        THEN Raised(HTTPException(401, "User not found or inactive", NULL))
        ELSE Returned(create_token_response(user_id, users[user_id], t))

\* Variant: the response hands the presented refresh token back.
refresh_token_SameRefresh(token) ==
    LET r == refresh_access_token(token, now)
    IN  /\ last' = IF r.ok
                   THEN Response("refresh_token", uuid_UUID(token.sub), token,
                                 200, [r.value EXCEPT !.refresh_token = token])
                   ELSE Response("refresh_token", NULL, token,
                                 r.error.status_code, r.error.detail)
        /\ issued' = IF r.ok
                     THEN issued \cup
                          Minted([r.value EXCEPT !.refresh_token = token],
                                 token)
                     ELSE issued
        /\ UNCHANGED <<settings, now, users, companies, devices, invitations, procs,
                       probe>>

\* routers/auth.py refresh_token: the endpoint passes the HTTPException of
\* refresh_access_token on.
refresh_token(token) ==
    LET r == refresh_access_token(token, now)
    IN  /\ last' = IF r.ok
                   THEN Response("refresh_token", uuid_UUID(token.sub), token,
                                 200, r.value)
                   ELSE Response("refresh_token", NULL, token,
                                 r.error.status_code, r.error.detail)
        /\ issued' = IF r.ok THEN issued \cup Minted(r.value, token)
                     ELSE issued
        /\ UNCHANGED <<settings, now, users, companies, devices, invitations, procs,
                       probe>>

----------------------------------------------------------------------------
(* routers/auth.py: google_callback after the code exchange; email is the  *)
(* address of the verified Google account, state the invitation token the  *)
(* login was started with (or NULL).                                       *)

FreeUserIds == {u \in UserIds : ~users[u].exists}

\* Variant: the bootstrap test counts the active users only.
UserCount_Active ==
    Cardinality({u \in UserIds : users[u].exists /\ users[u].is_active})

UserCount == Cardinality({u \in UserIds : users[u].exists})

LoginRow(row, email, t) ==
    [row EXCEPT !.google_id = email, !.profile_picture_url = "picture",
                !.last_login = t]

FirstUser(email, t) ==
    [exists |-> TRUE, email |-> email, google_id |-> email,
     full_name |-> "google name", profile_picture_url |-> "picture",
     role |-> "super_admin",
     company_id |-> NULL, can_add_devices |-> FALSE, is_active |-> TRUE,
     last_login |-> t]

google_callback(email, state) ==
    /\ IF UserWithEmail(email)
       THEN LET u == CHOOSE v \in UserIds :
                         users[v].exists /\ users[v].email = email
            IN  /\ users' = [users EXCEPT ![u] = LoginRow(users[u], email, now)]
                /\ issued' = issued \cup
                       Minted(create_token_response(u, users[u], now), NoToken)
                /\ last' = Request("google_callback", u, email, 200)
       ELSE IF UserCount = 0
       THEN /\ FreeUserIds # {}
            /\ LET u == CHOOSE v \in FreeUserIds : TRUE
               IN  /\ users' = [users EXCEPT ![u] = FirstUser(email, now)]
                   /\ issued' = issued \cup
                         Minted(create_token_response(u, FirstUser(email, now),
                                                      now), NoToken)
                   /\ last' = Request("google_callback", u, email, 200)
       ELSE /\ users' = users
            /\ issued' = issued
            /\ last' = Request("google_callback", NULL, email, 403)
    /\ UNCHANGED <<settings, now, companies, devices, invitations, procs, probe>>

----------------------------------------------------------------------------
(* The invitation lifecycle: requests of admins of both tenants and of the *)
(* super admin, the Invitation methods, sign-ins, and the clock.           *)

InviteDirectory == [Directory EXCEPT !["u3"].role = "admin"]

InitInvite ==
    /\ now = 0
    /\ users = InviteDirectory
    /\ companies = Tenants
    /\ devices = [d \in DeviceIds |-> NoDevice]
    /\ invitations = [i \in InvIds |-> NoInvitation]
    /\ last = NoRequest
    /\ procs = << >>
    /\ issued = {}
    /\ settings = StartupSettings
    /\ probe = << >>

RouterSend ==
    \E u \in UserIds, email \in InviteEmails, role \in InviteRoles,
       company_id \in CompanyIds :
        send_invitation(u, email, role, company_id)

RouterCancel == \E u \in UserIds, i \in InvIds : cancel_invitation(u, i)

ModelAccept == \E i \in InvIds : Invitation_mark_as_accepted(i)

ModelExpire == \E i \in InvIds : Invitation_mark_as_expired(i)

ModelCancel == \E i \in InvIds : Invitation_mark_as_cancelled(i)

GoogleSignIn ==
    \E email \in GoogleEmails, state \in {NULL} \cup {InvName(i) : i \in InvIds} :
        google_callback(email, state)

TickInvite ==
    /\ \E dt \in InviteTickSteps : now + dt <= MaxInviteTime /\ now' = now + dt
    /\ UNCHANGED <<settings, users, companies, devices, invitations, last, procs, probe, issued>>

NextInvite ==
    \/ RouterSend \/ RouterCancel
    \/ ModelAccept \/ ModelExpire \/ ModelCancel
    \/ GoogleSignIn \/ TickInvite

SpecInvite == InitInvite /\ [][NextInvite]_vars

\* The two requests of routers/invitations.py that write, and the clock.
NextSend == RouterSend \/ RouterCancel \/ TickInvite

SpecSend == InitInvite /\ [][NextSend]_vars

----------------------------------------------------------------------------
(* Invitation.is_valid on its own: every status against every relation of  *)
(* the clock to expires_at.                                                *)

InitValid ==
    /\ now \in 0 .. MaxProbeTime
    /\ users = InviteDirectory
    /\ companies = Tenants
    /\ devices = [d \in DeviceIds |-> NoDevice]
    /\ invitations = [i \in InvIds |-> NoInvitation]
    /\ last = NoRequest
    /\ procs = << >>
    /\ issued = {}
    /\ settings = StartupSettings
    /\ \E st \in InvitationStatuses, e \in 0 .. MaxProbeTime :
          probe = [status |-> st, expires_at |-> e, called |-> FALSE,
                   result |-> FALSE]

CallIsValid ==
    /\ ~probe.called
    /\ probe' = [probe EXCEPT !.called = TRUE,
                              !.result = Invitation_is_valid(probe, now)]
    /\ UNCHANGED <<settings, now, users, companies, devices, invitations, last, procs,
                   issued>>

NextValid == CallIsValid

SpecValid == InitValid /\ [][NextValid]_vars


----------------------------------------------------------------------------
(* Properties of the device pairing state machine *)

\* The unlinked device that holds the code, if any.
UnlinkedHolder(code) ==
    {d \in DeviceIds : /\ devices[d].exists
                       /\ devices[d].device_code = code
                       /\ ~devices[d].is_linked}

CanLink(u) == Authenticated(u) /\ users[u].can_add_devices

\* C2: two link_device requests with the same code, one after the other:
\* the first, on an unlinked device holding the code and by a caller with
\* can_add_devices, succeeds, marks the device linked, clears its code and
\* records the caller as user_id; the second is answered 404 or 409 and
\* leaves the devices table as it was.
C2_LinkTwice ==
    [][\A u \in UserIds, c \in RouterCodes :
          link_device(u, c) /\ CanLink(u) =>
             /\ \A d \in UnlinkedHolder(c) :
                   /\ last'.status = 200
                   /\ devices'[d].is_linked
                   /\ devices'[d].device_code = NULL
                   /\ devices'[d].user_id = u
             /\ (last.op = "link_device" /\ last.arg = c /\ last.status = 200) =>
                   /\ last'.status \in {404, 409}
                   /\ devices' = devices]_vars

\* C2 witness: a link_device request has just succeeded: its device is
\* linked to the caller and the presented code resolves to no device.
C2_Witness ==
    /\ last.op = "link_device" /\ last.status = 200
    /\ DeviceByCode(last.arg) = NULL
    /\ \E d \in DeviceIds : /\ devices[d].is_linked
                            /\ devices[d].user_id = last.caller
                            /\ devices[d].device_code = NULL

\* C4: through generate_device_code, link_device and delete_device requests
\* the user_id of a device never goes from one user to another: a set
\* user_id changes only when its owner deletes the device, and a link_device
\* request on a device linked to somebody else is not answered 200.
C4_NoSilentTransfer ==
    [][\A d \in DeviceIds :
          (devices[d].user_id # NULL /\ devices'[d].user_id # devices[d].user_id)
             => /\ devices'[d] = NoDevice
                /\ last' = Request("delete_device", devices[d].user_id, d, 200)]_vars

\* C4 witness: a linked device was handed a new code by generate_device_code
\* and another user's link_device with that code has been answered 409.
C4_Witness ==
    /\ last.op = "link_device" /\ last.status = 409
    /\ \E d \in DeviceIds : /\ devices[d].is_linked
                            /\ devices[d].device_code = last.arg
                            /\ devices[d].user_id # NULL
                            /\ devices[d].user_id # last.caller

\* C5: a code whose device was created more than DEVICE_CODE_EXPIRE_MINUTES
\* ago (is_code_expired) is never accepted: link_device with it fails and the
\* device stays unlinked.
C5_ExpiredCodeRejected ==
    [][\A u \in UserIds, c \in RouterCodes :
          (/\ link_device(u, c)
           /\ DeviceByCode(c) # NULL
           /\ Device_is_code_expired(devices[DeviceByCode(c)], now))
             => /\ last'.status # 200
                /\ ~devices'[DeviceByCode(c)].is_linked]_vars

\* Company.get_devices_count
Company_get_devices_count(t) ==
    Cardinality({d \in DeviceIds : devices[d].exists /\ devices[d].company_id = t})

\* C6: the number of devices of a tenant never exceeds its max_devices.
C6_DeviceLimit ==
    \A t \in CompanyIds : Company_get_devices_count(t) <= companies[t].max_devices

\* C3: every linked device has a user_id, a company_id and no device_code.
C3_LinkedInvariant ==
    \A d \in DeviceIds :
        (devices[d].exists /\ devices[d].is_linked) =>
            /\ devices[d].user_id # NULL
            /\ devices[d].company_id # NULL
            /\ devices[d].device_code = NULL

----------------------------------------------------------------------------
(* Properties of the invitation lifecycle *)

\* C7: invitation status is one-way: a row whose status is accepted,
\* expired or cancelled keeps that status in every later step, and a
\* cancel_invitation request on such a row is not answered 200.
C7_TerminalIsFinal ==
    [][/\ \A i \in InvIds :
             (invitations[i].exists /\ invitations[i].status \in TerminalStatuses)
                => invitations'[i].status = invitations[i].status
       /\ \A u \in UserIds, i \in InvIds :
             (/\ cancel_invitation(u, i)
              /\ invitations[i].exists
              /\ invitations[i].status \in TerminalStatuses)
                => last'.status # 200]_vars

\* C8: an invitation whose expires_at is in the past is never moved to
\* accepted, also while its stored status is still pending.
C8_NoExpiredAcceptance ==
    [][\A i \in InvIds :
          (/\ invitations[i].exists
           /\ invitations[i].status # "accepted"
           /\ Invitation_is_expired(invitations[i], now))
             => invitations'[i].status # "accepted"]_vars

\* C9 as stated: is_valid() is true exactly when status is pending and
\* now < expires_at; false at now = expires_at.
C9_ValidBeforeDeadline ==
    probe.called =>
        (probe.result <=> (probe.status = "pending" /\ now < probe.expires_at))

\* C9 as amended: is_valid() is true exactly when status is pending and
\* now <= expires_at; at now = expires_at a pending invitation is valid.
C9_ValidUpToDeadline ==
    probe.called =>
        (probe.result <=> (probe.status = "pending" /\ now <= probe.expires_at))

\* C9 witness: is_valid() was called on a pending invitation at the very
\* instant of its expires_at and returned true.
C9_Witness ==
    /\ probe.called
    /\ probe.status = "pending"
    /\ now = probe.expires_at
    /\ probe.result

PendingFor(email) ==
    {i \in InvIds : /\ invitations[i].exists
                    /\ invitations[i].email = email
                    /\ invitations[i].status = "pending"}

OnePendingPerEmail ==
    \A email \in InviteEmails : Cardinality(PendingFor(email)) <= 1

\* C10: after any sequence of send_invitation and cancel_invitation requests
\* there is at most one pending invitation per email; a send_invitation by
\* an admin or super admin for an email with a pending invitation, or of a
\* registered user, is answered 409 and adds no invitation.
C10_OnePending ==
    [][/\ OnePendingPerEmail'
       /\ last'.op = "send_invitation" =>
             \A role \in InviteRoles, t \in CompanyIds :
                LET u == last'.caller
                    email == last'.arg
                IN  (/\ RequireAdmin(u) = 200
                     /\ (UserWithEmail(email) \/ PendingFor(email) # {})
                     /\ send_invitation(u, email, role, t))
                       => /\ last'.status = 409
                          /\ invitations' = invitations]_vars

\* C10 witness: a send_invitation for an email that has a pending invitation
\* was answered 409 while another email has its own pending invitation.
C10_Witness ==
    /\ last.op = "send_invitation" /\ last.status = 409
    /\ Cardinality(PendingFor(last.arg)) = 1
    /\ \E email \in InviteEmails : email # last.arg /\ PendingFor(email) # {}

\* Rows of the invitations table the step has inserted.
CreatedInvitations == {i \in InvIds : ~invitations[i].exists /\ invitations'[i].exists}

\* C11: the tenant of a created invitation follows the caller's scope: a
\* send_invitation by an admin yields an invitation of the admin's own tenant
\* whatever tenant the request names, and a send_invitation by a super admin
\* naming an existing tenant t (for an email that is free) succeeds and
\* yields a pending invitation of tenant t.
C11_TenantFollowsScope ==
    [][last'.op = "send_invitation" =>
          \A role \in InviteRoles, t \in CompanyIds :
             LET u == last'.caller
                 email == last'.arg
             IN  (Authenticated(u) /\ send_invitation(u, email, role, t)) =>
                   /\ users[u].role = "admin" =>
                         \A i \in CreatedInvitations :
                             invitations'[i].company_id = users[u].company_id
                   /\ (/\ users[u].role = "super_admin"
                       /\ companies[t].exists
                       /\ ~UserWithEmail(email)
                       /\ PendingFor(email) = {})
                         => /\ last'.status = 201
                            /\ \E i \in CreatedInvitations :
                                  /\ invitations'[i].status = "pending"
                                  /\ invitations'[i].company_id = t]_vars

\* C12: cancel_invitation on a pending invitation sets it to cancelled if
\* and only if the caller is a super admin or an admin of the invitation's
\* tenant; for every other caller the request fails and the invitations are
\* unchanged.
C12_CancelAuthorised ==
    [][last'.op = "cancel_invitation" =>
          \A i \in InvIds :
             LET u == last'.caller
                 allowed == /\ Authenticated(u)
                            /\ \/ users[u].role = "super_admin"
                               \/ /\ users[u].role = "admin"
                                  /\ users[u].company_id =
                                         invitations[i].company_id
             IN  (/\ InvName(i) = last'.arg
                  /\ invitations[i].exists
                  /\ invitations[i].status = "pending"
                  /\ cancel_invitation(u, i))
                    => IF allowed
                       THEN /\ last'.status = 200
                            /\ invitations'[i].status = "cancelled"
                       ELSE /\ last'.status # 200
                            /\ invitations' = invitations]_vars

----------------------------------------------------------------------------
(* models/user.py and routers/users.py.  The caller of a request is the    *)
(* user its access token names; a request body is the record of its        *)
(* fields and the set of those the client sent (model_fields_set).         *)

\* A key of the users table that holds no row.
NoUser ==
    [exists |-> FALSE, email |-> NULL, google_id |-> NULL, full_name |-> NULL,
     profile_picture_url |-> NULL, role |-> NULL, company_id |-> NULL,
     can_add_devices |-> FALSE, is_active |-> FALSE, last_login |-> NULL]

UserRoles == {"super_admin", "admin", "user"}

\* Variant: an admin manages every user of its own tenant.
User_can_manage_user_Tenant(self, target_user) ==
    IF self.role = "super_admin" THEN TRUE
    ELSE IF self.role = "admin" /\ target_user.company_id = self.company_id
    THEN TRUE
    ELSE FALSE

\* User.can_manage_user(target_user)
User_can_manage_user(self, target_user) ==
    IF self.role = "super_admin" THEN TRUE
    ELSE IF self.role = "admin" /\ target_user.company_id = self.company_id
    THEN IF target_user.role = "admin" \/ target_user.role = "super_admin"
         THEN FALSE
         ELSE TRUE
    ELSE FALSE

\* get_current_user as the only dependency
RequireUser(u) == IF ~Authenticated(u) THEN 401 ELSE 200

\* require_super_admin: role_checker after get_current_user
RequireSuperAdmin(u) ==
    IF ~Authenticated(u) THEN 401
    ELSE IF users[u].role # "super_admin" THEN 403
    ELSE 200

\* The checks the five admin requests on /{user_id} share.
ManageStatus(u, id) ==
    IF RequireAdmin(u) # 200 THEN RequireAdmin(u)
    ELSE IF ~users[id].exists THEN 404
    ELSE IF ~User_can_manage_user(users[u], users[id]) THEN 403
    ELSE 200

\* UserUpdate bodies: the fields sent, and a value for each field.
UserUpdateFieldSets ==
    {{}, {"full_name", "profile_picture_url"}, {"can_add_devices"},
     {"role", "is_active"},
     {"full_name", "profile_picture_url", "role", "can_add_devices",
      "is_active"}}

UserUpdates ==
    {[fields_set |-> fs, full_name |-> "Ann", profile_picture_url |-> "photo",
      role |-> "admin", can_add_devices |-> b, is_active |-> ~b] :
        fs \in UserUpdateFieldSets, b \in BOOLEAN}

\* Addresses, roles and tenants create_user is called with.
CreateEmails == {"user@t1", "new1@mail"}
CreateRoles == {"admin", "user"}

\* create_user: company.can_add_user() is called without its db_session
\* argument, which raises TypeError outside the try block (500).
create_user(u, email, role, company_id) ==
    LET status == IF RequireSuperAdmin(u) # 200 THEN RequireSuperAdmin(u)
                  ELSE IF UserWithEmail(email) THEN 400
                  ELSE IF company_id # NULL /\ ~companies[company_id].exists
                  THEN 404
                  ELSE IF company_id # NULL THEN 500
                  ELSE 201
    IN  /\ status = 201 => FreeUserIds # {}
        /\ users' =
              IF status = 201
              THEN [users EXCEPT ![CHOOSE v \in FreeUserIds : TRUE] =
                       UserRow(email, role, company_id, FALSE)]
              ELSE users
        /\ last' = Request("create_user", u, email, status)
        /\ UNCHANGED <<settings, now, companies, devices, invitations, procs, probe,
                       issued>>

\* Variant: update_my_profile stores every field the body carries.
ProfileRow_AllFields(row, data) ==
    [row EXCEPT
        !.full_name = IF "full_name" \in data.fields_set
                      THEN data.full_name ELSE @,
        !.profile_picture_url = IF "profile_picture_url" \in data.fields_set
                                THEN data.profile_picture_url ELSE @,
        !.can_add_devices = IF "can_add_devices" \in data.fields_set
                            THEN data.can_add_devices ELSE @,
        !.is_active = IF "is_active" \in data.fields_set
                      THEN data.is_active ELSE @]

\* update_my_profile: full_name and profile_picture_url when truthy
ProfileRow(row, data) ==
    [row EXCEPT
        !.full_name = IF "full_name" \in data.fields_set
                      THEN data.full_name ELSE @,
        !.profile_picture_url = IF "profile_picture_url" \in data.fields_set
                                THEN data.profile_picture_url ELSE @]

update_my_profile(u, data) ==
    /\ users' = IF RequireUser(u) = 200
                THEN [users EXCEPT ![u] = ProfileRow(users[u], data)]
                ELSE users
    /\ last' = Request("update_my_profile", u, u, RequireUser(u))
    /\ UNCHANGED <<settings, now, companies, devices, invitations, procs, probe, issued>>

\* update_user: setattr for every field sent, but role and company_id
\* Variant: update_user stores role like any other field of the body.
UpdatedRow_WithRole(row, data) ==
    [row EXCEPT
        !.full_name = IF "full_name" \in data.fields_set
                      THEN data.full_name ELSE @,
        !.profile_picture_url = IF "profile_picture_url" \in data.fields_set
                                THEN data.profile_picture_url ELSE @,
        !.role = IF "role" \in data.fields_set THEN data.role ELSE @,
        !.can_add_devices = IF "can_add_devices" \in data.fields_set
                            THEN data.can_add_devices ELSE @,
        !.is_active = IF "is_active" \in data.fields_set
                      THEN data.is_active ELSE @]

UpdatedRow(row, data) ==
    [row EXCEPT
        !.full_name = IF "full_name" \in data.fields_set
                      THEN data.full_name ELSE @,
        !.profile_picture_url = IF "profile_picture_url" \in data.fields_set
                                THEN data.profile_picture_url ELSE @,
        !.can_add_devices = IF "can_add_devices" \in data.fields_set
                            THEN data.can_add_devices ELSE @,
        !.is_active = IF "is_active" \in data.fields_set
                      THEN data.is_active ELSE @]

update_user(u, id, data) ==
    /\ users' = IF ManageStatus(u, id) = 200
                THEN [users EXCEPT ![id] = UpdatedRow(users[id], data)]
                ELSE users
    /\ last' = Request("update_user", u, id, ManageStatus(u, id))
    /\ UNCHANGED <<settings, now, companies, devices, invitations, procs, probe, issued>>

update_user_permissions(u, id, can_add_devices) ==
    /\ users' = IF ManageStatus(u, id) = 200
                THEN [users EXCEPT ![id].can_add_devices = can_add_devices]
                ELSE users
    /\ last' = Request("update_user_permissions", u, id, ManageStatus(u, id))
    /\ UNCHANGED <<settings, now, companies, devices, invitations, procs, probe, issued>>

\* Variant: deactivate_user does not ask can_manage_user.
deactivate_user_Unchecked(u, id) ==
    LET status == IF RequireAdmin(u) # 200 THEN RequireAdmin(u)
                  ELSE IF ~users[id].exists THEN 404
                  ELSE 200
    IN  /\ users' = IF status = 200
                    THEN [users EXCEPT ![id].is_active = FALSE]
                    ELSE users
        /\ last' = Request("deactivate_user", u, id, status)
        /\ UNCHANGED <<settings, now, companies, devices, invitations, procs, probe,
                       issued>>

deactivate_user(u, id) ==
    LET status == ManageStatus(u, id)
    IN  /\ users' = IF status = 200
                    THEN [users EXCEPT ![id].is_active = FALSE]
                    ELSE users
        /\ last' = Request("deactivate_user", u, id, status)
        /\ UNCHANGED <<settings, now, companies, devices, invitations, procs, probe,
                       issued>>

activate_user(u, id) ==
    /\ users' = IF ManageStatus(u, id) = 200
                THEN [users EXCEPT ![id].is_active = TRUE]
                ELSE users
    /\ last' = Request("activate_user", u, id, ManageStatus(u, id))
    /\ UNCHANGED <<settings, now, companies, devices, invitations, procs, probe, issued>>

\* delete_user: db.delete(user) takes the user's devices and the
\* invitations the user sent along (cascade="all, delete-orphan").
delete_user(u, id) ==
    LET status == IF ManageStatus(u, id) = 200 THEN 204
                  ELSE ManageStatus(u, id)
    IN  /\ users' = IF status = 204 THEN [users EXCEPT ![id] = NoUser]
                    ELSE users
        /\ devices' =
              IF status = 204
              THEN [d \in DeviceIds |->
                       IF devices[d].exists /\ devices[d].user_id = id
                       THEN NoDevice ELSE devices[d]]
              ELSE devices
        /\ invitations' =
              IF status = 204
              THEN [i \in InvIds |->
                       IF invitations[i].exists
                          /\ invitations[i].invited_by = id
                       THEN NoInvitation ELSE invitations[i]]
              ELSE invitations
        /\ last' = Request("delete_user", u, id, status)
        /\ UNCHANGED <<settings, now, companies, procs, probe, issued>>

----------------------------------------------------------------------------
(* The token lifecycle: a user signs in with Google, clients present the   *)
(* tokens in circulation (also signed with another key) to the token         *)
(* endpoints, the super admin deactivates, activates and deletes the user, *)
(* and the clock moves past the two lifetimes.                             *)

\* The account that signs in, its key, and the admin acting on it.
TokenEmails == {"user@t1"}
TokenUsers == {"u4"}
TokenAdmins == {"u1"}

\* Number of instants at which the user signs in.
MaxSignIns == 2

\* Clock readings at which requests arrive: the start, a minute more than
\* the lifetime of an access token, a minute more than that of a refresh
\* token.
TokenTimes ==
    {0, ACCESS_TOKEN_EXPIRE_MINUTES + 1,
     REFRESH_TOKEN_EXPIRE_DAYS * 24 * 60 + 1}

\* A token signed again with a key that is not the server's.
Resigned(tok) == [tok EXCEPT !.key = OtherKey]

\* The tokens a client can present.
Presentable ==
    UNION {{m.token, Resigned(m.token)} : m \in issued}

SignIns == {m.token.iat : m \in {n \in issued : n.origin = NoToken}}

InitToken ==
    /\ now = 0
    /\ users = Directory
    /\ companies = Tenants
    /\ devices = [d \in DeviceIds |-> NoDevice]
    /\ invitations = [i \in InvIds |-> NoInvitation]
    /\ last = NoRequest
    /\ procs = << >>
    /\ probe = << >>
    /\ issued = {}
    /\ settings = StartupSettings

TokenSignIn ==
    /\ Cardinality(SignIns) < MaxSignIns
    /\ \E email \in TokenEmails : google_callback(email, NULL)

TokenRefresh == \E tok \in Presentable : refresh_token(tok)

TokenMe == \E tok \in Presentable : get_current_user_info(tok)

TokenDeactivate ==
    \E u \in TokenAdmins, id \in TokenUsers : deactivate_user(u, id)

TokenActivate ==
    \E u \in TokenAdmins, id \in TokenUsers : activate_user(u, id)

TokenDelete == \E u \in TokenAdmins, id \in TokenUsers : delete_user(u, id)

TickToken ==
    /\ \E t \in TokenTimes : t > now /\ now' = t
    /\ UNCHANGED <<settings, users, companies, devices, invitations, last, procs, probe,
                   issued>>

NextToken ==
    \/ TokenSignIn \/ TokenRefresh \/ TokenMe
    \/ TokenDeactivate \/ TokenActivate \/ TokenDelete \/ TickToken

SpecToken == InitToken /\ [][NextToken]_vars

----------------------------------------------------------------------------
(* verify_token and the functions built on it, on their own: two tokens    *)
(* out of those the server minted and their defective copies, against      *)
(* every relation of the clock to the two lifetimes and every state of the *)
(* account.                                                                *)

\* Latest minute at which a probed token was issued.
MaxIssueTime == 1

IssueTimes == 0 .. MaxIssueTime

\* Clock readings of a probe: the lifetime of each kind of token, a minute
\* less and a minute more.
VerifyTimes ==
    {0, ACCESS_TOKEN_EXPIRE_MINUTES, ACCESS_TOKEN_EXPIRE_MINUTES + 1,
     REFRESH_TOKEN_EXPIRE_DAYS * 24 * 60,
     REFRESH_TOKEN_EXPIRE_DAYS * 24 * 60 + 1}

\* The account the probed tokens were issued to.
VerifyUsers == {"u4"}

AccessTokens ==
    {create_access_token(u, Directory[u].email, Directory[u].role,
                         Directory[u].company_id, t) :
        u \in VerifyUsers, t \in IssueTimes}

RefreshTokens ==
    {create_refresh_token(u, Directory[u].email, t) :
        u \in VerifyUsers, t \in IssueTimes}

\* A token signed by the server whose payload has no sub claim, or one that
\* is not a uuid.
NoSubject(tok) == [tok EXCEPT !.sub = NULL]

BadSubject(tok) == [tok EXCEPT !.sub = "not-a-uuid"]

TokenUniverse ==
    UNION {{tok, Resigned(tok), NoSubject(tok), BadSubject(tok)} :
              tok \in AccessTokens \cup RefreshTokens}

\* The account is active, deactivated, or deleted.
VerifyDirectories ==
    {Directory, [Directory EXCEPT !["u4"].is_active = FALSE],
     [Directory EXCEPT !["u4"] = NoUser]}

InitVerify ==
    /\ now \in VerifyTimes
    /\ users \in VerifyDirectories
    /\ companies = Tenants
    /\ devices = [d \in DeviceIds |-> NoDevice]
    /\ invitations = [i \in InvIds |-> NoInvitation]
    /\ last = NoRequest
    /\ procs = << >>
    /\ issued = {}
    /\ settings = StartupSettings
    /\ \E a \in TokenUniverse, b \in TokenUniverse, ty \in TokenTypes :
          probe = [a |-> a, b |-> b, expected_type |-> ty, op |-> "none",
                   ra |-> NULL, rb |-> NULL]

CallVerifyToken ==
    /\ probe.op = "none"
    /\ probe' =
          [probe EXCEPT
              !.op = "verify_token",
              !.ra = verify_token(probe.a, probe.expected_type, now),
              !.rb = verify_token(probe.b, probe.expected_type, now)]
    /\ UNCHANGED <<settings, now, users, companies, devices, invitations, last, procs,
                   issued>>

CallVerifyAccessToken ==
    /\ probe.op = "none"
    /\ probe' = [probe EXCEPT !.op = "verify_access_token",
                              !.ra = verify_access_token(probe.a, now),
                              !.rb = verify_access_token(probe.b, now)]
    /\ UNCHANGED <<settings, now, users, companies, devices, invitations, last, procs,
                   issued>>

CallGetCurrentUser ==
    /\ probe.op = "none"
    /\ probe' = [probe EXCEPT !.op = "get_current_user",
                              !.ra = get_current_user(probe.a, now),
                              !.rb = get_current_user(probe.b, now)]
    /\ UNCHANGED <<settings, now, users, companies, devices, invitations, last, procs,
                   issued>>

CallRefreshAccessToken ==
    /\ probe.op = "none"
    /\ probe' = [probe EXCEPT !.op = "refresh_access_token",
                              !.ra = refresh_access_token(probe.a, now),
                              !.rb = refresh_access_token(probe.b, now)]
    /\ UNCHANGED <<settings, now, users, companies, devices, invitations, last, procs,
                   issued>>

NextVerify ==
    \/ CallVerifyToken \/ CallVerifyAccessToken
    \/ CallGetCurrentUser \/ CallRefreshAccessToken

SpecVerify == InitVerify /\ [][NextVerify]_vars

----------------------------------------------------------------------------
(* Tokens *)

\* Signed by the server, carrying a subject, and not past its exp claim.
SignedUnexpired(tok, t) ==
    tok.key = SECRET_KEY /\ tok.sub # NULL /\ t <= tok.exp

\* C13: verify_token(token, expected_type) succeeds only if the token's type
\* claim equals expected_type: a token minted by create_refresh_token is
\* rejected by verify_token(_, "access") (directly, behind the verify-token
\* endpoint and in get_current_user), and a token minted by
\* create_access_token is rejected by verify_token(_, "refresh") and by
\* refresh_access_token.
C13_TypeChecked ==
    /\ (probe.op = "verify_token" /\ probe.ra.ok)
          => probe.a.type = probe.expected_type
    /\ (probe.op = "verify_token" /\ probe.a \in RefreshTokens
        /\ probe.expected_type = "access") => ~probe.ra.ok
    /\ (probe.op = "verify_token" /\ probe.a \in AccessTokens
        /\ probe.expected_type = "refresh") => ~probe.ra.ok
    /\ (probe.op = "verify_access_token" /\ probe.a \in RefreshTokens)
          => ~probe.ra.valid
    /\ (probe.op = "get_current_user" /\ probe.a \in RefreshTokens)
          => ~probe.ra.ok
    /\ (probe.op = "refresh_access_token" /\ probe.a \in AccessTokens)
          => ~probe.ra.ok

\* C13 witness: get_current_user was given an unexpired refresh token of an
\* active user, signed by the server, and raised.
C13_Witness ==
    /\ probe.op = "get_current_user"
    /\ probe.a \in RefreshTokens
    /\ SignedUnexpired(probe.a, now)
    /\ users[uuid_UUID(probe.a.sub)].is_active
    /\ ~probe.ra.ok

\* C14 as stated: a token minted by create_access_token is accepted by
\* verify_token(_, "access") only while now < exp, and rejected at every
\* time after exp.
C14_AcceptedBeforeExp ==
    (/\ probe.op = "verify_token"
     /\ probe.expected_type = "access"
     /\ probe.a \in AccessTokens)
       => /\ probe.ra.ok => now < probe.a.exp
          /\ now > probe.a.exp => ~probe.ra.ok

\* C14 as amended: a token minted by create_access_token is accepted by
\* verify_token(_, "access") exactly while now <= exp, the instant of exp
\* included, and rejected at every time after exp.
C14_AcceptedUpToExp ==
    (/\ probe.op = "verify_token"
     /\ probe.expected_type = "access"
     /\ probe.a \in AccessTokens)
       => /\ probe.ra.ok <=> now <= probe.a.exp
          /\ now > probe.a.exp => ~probe.ra.ok

\* C14 witness: verify_token(_, "access") accepted an access token at the
\* very instant of its exp claim.
C14_Witness ==
    /\ probe.op = "verify_token"
    /\ probe.expected_type = "access"
    /\ probe.a \in AccessTokens
    /\ now = probe.a.exp
    /\ probe.ra.ok

\* C15: whenever verify_token fails, for whatever reason (signature,
\* expiry, type, missing subject), it raises one and the same exception
\* value (status code, detail, headers); the verify-token endpoint likewise
\* answers every failure with one body.
C15_UniformFailure ==
    /\ (probe.op = "verify_token" /\ ~probe.ra.ok /\ ~probe.rb.ok)
          => probe.ra.error = probe.rb.error
    /\ (probe.op = "verify_access_token" /\ ~probe.ra.valid
        /\ ~probe.rb.valid) => probe.ra = probe.rb

\* C15 witness: one token failed on its signature and the other, signed and
\* unexpired, on its type.
C15_Witness ==
    /\ probe.op = "verify_token"
    /\ probe.a.key # SECRET_KEY
    /\ SignedUnexpired(probe.b, now)
    /\ probe.b.type # probe.expected_type
    /\ ~probe.ra.ok
    /\ ~probe.rb.ok

\* The presented token verifies as a refresh token and names an existing,
\* active user.
RefreshableBy(tok, t) ==
    /\ verify_token(tok, "refresh", t).ok
    /\ uuid_UUID(tok.sub) \in UserIds
    /\ users[uuid_UUID(tok.sub)].exists
    /\ users[uuid_UUID(tok.sub)].is_active

\* C16: a refresh request returns a newly minted access and refresh token
\* of the user if and only if the presented token verifies as a refresh
\* token and its subject is an existing active user; otherwise it is
\* answered 401 and no token is put in circulation.
C16_RefreshIffActiveUser ==
    [][last'.op = "refresh_token" =>
          LET tok == last'.arg
              u == uuid_UUID(tok.sub)
          IN  refresh_token(tok) =>
                 IF RefreshableBy(tok, now)
                 THEN /\ last'.status = 200
                      /\ last'.body.access_token =
                            create_access_token(u, users[u].email,
                                users[u].role, users[u].company_id, now)
                      /\ last'.body.refresh_token =
                            create_refresh_token(u, users[u].email, now)
                      /\ {last'.body.access_token, last'.body.refresh_token}
                            \subseteq {m.token : m \in issued'}
                 ELSE /\ last'.status = 401
                      /\ issued' = issued]_vars

\* C16 witness: an unexpired refresh token of a deactivated user was
\* presented and answered 401.
C16_Witness ==
    /\ last.op = "refresh_token"
    /\ last.status = 401
    /\ last.arg \in {m.token : m \in issued}
    /\ last.arg.type = "refresh"
    /\ now <= last.arg.exp
    /\ users[uuid_UUID(last.arg.sub)].exists
    /\ ~users[uuid_UUID(last.arg.sub)].is_active

\* C17: for an active user, a refresh request with an unexpired refresh
\* token the server minted succeeds however often the token has been used
\* and whatever pairs have been issued from it.
C17_RefreshReusable ==
    [][last'.op = "refresh_token" =>
          LET tok == last'.arg
              u == uuid_UUID(tok.sub)
          IN  (/\ refresh_token(tok)
               /\ tok \in {m.token : m \in issued}
               /\ tok.type = "refresh"
               /\ now <= tok.exp
               /\ users[u].exists
               /\ users[u].is_active)
                 => last'.status = 200]_vars

\* C17 witness: the refresh token just presented was answered 200 and two
\* pairs, issued at different times, have been obtained with it.
C17_Witness ==
    /\ last.op = "refresh_token"
    /\ last.status = 200
    /\ \E m, n \in issued :
          /\ m.origin = last.arg
          /\ n.origin = last.arg
          /\ m.token.iat < n.token.iat

----------------------------------------------------------------------------
(* User.can_manage_user on its own: an actor and a target of every role    *)
(* and tenant (or none), the target being the actor itself or another      *)
(* user.                                                                   *)

ManageCompanies == {NULL} \cup CompanyIds

ManageActors ==
    {UserRow("actor@mail", r, t, FALSE) :
        r \in UserRoles, t \in ManageCompanies}

ManageTargets ==
    {UserRow("target@mail", r, t, FALSE) :
        r \in UserRoles, t \in ManageCompanies}

InitManage ==
    /\ now = 0
    /\ users = Directory
    /\ companies = Tenants
    /\ devices = [d \in DeviceIds |-> NoDevice]
    /\ invitations = [i \in InvIds |-> NoInvitation]
    /\ last = NoRequest
    /\ procs = << >>
    /\ issued = {}
    /\ settings = StartupSettings
    /\ \E actor \in ManageActors, target \in ManageTargets, same \in BOOLEAN :
          probe = [actor |-> actor,
                   target |-> IF same THEN actor ELSE target,
                   called |-> FALSE, result |-> FALSE]

CallCanManageUser ==
    /\ ~probe.called
    /\ probe' =
          [probe EXCEPT
              !.called = TRUE,
              !.result = User_can_manage_user(probe.actor, probe.target)]
    /\ UNCHANGED <<settings, now, users, companies, devices, invitations, last, procs,
                   issued>>

NextManage == CallCanManageUser

SpecManage == InitManage /\ [][NextManage]_vars

\* C18: actor.can_manage_user(target) is true exactly when the actor is a
\* super admin, or the actor is an admin and the target is a user of the
\* actor's tenant; it is false for an admin on an admin of the same tenant
\* and for every actor of role user.
C18_CanManage ==
    probe.called =>
        /\ probe.result <=>
              \/ probe.actor.role = "super_admin"
              \/ /\ probe.actor.role = "admin"
                 /\ probe.target.role = "user"
                 /\ probe.target.company_id = probe.actor.company_id
        /\ (/\ probe.actor.role = "admin"
            /\ probe.target.role = "admin"
            /\ probe.target.company_id = probe.actor.company_id)
              => ~probe.result
        /\ probe.actor.role = "user" => ~probe.result

\* C18 witness: can_manage_user was asked for an admin and another admin of
\* the same tenant and returned false.
C18_Witness ==
    /\ probe.called
    /\ probe.actor.role = "admin"
    /\ probe.target.role = "admin"
    /\ probe.target # probe.actor
    /\ probe.actor.company_id \in CompanyIds
    /\ probe.target.company_id = probe.actor.company_id
    /\ ~probe.result

----------------------------------------------------------------------------
(* The users router: the admin of tenant t1 and the two users call every   *)
(* writing request on every user; the super admin is a target only.  The   *)
(* directory holds a user of another tenant, or a second admin of the      *)
(* admin's own tenant.                                                     *)

UsersCallers == {"u2", "u3", "u4"}

UsersDirectories ==
    {Directory,
     [Directory EXCEPT !["u3"] = UserRow("admin2@t1", "admin", "t1", TRUE)]}

CreateCompanies == {NULL, "t1"}

InitUsers ==
    /\ now = 0
    /\ users \in UsersDirectories
    /\ companies = Tenants
    /\ devices = [d \in DeviceIds |-> NoDevice]
    /\ invitations = [i \in InvIds |-> NoInvitation]
    /\ last = NoRequest
    /\ procs = << >>
    /\ probe = << >>
    /\ issued = {}
    /\ settings = StartupSettings

UsersCreate ==
    \E u \in UsersCallers, email \in CreateEmails, role \in CreateRoles,
       company_id \in CreateCompanies :
        create_user(u, email, role, company_id)

UsersUpdateMe ==
    \E u \in UsersCallers, data \in UserUpdates : update_my_profile(u, data)

UsersUpdate ==
    \E u \in UsersCallers, id \in UserIds, data \in UserUpdates :
        update_user(u, id, data)

UsersPermissions ==
    \E u \in UsersCallers, id \in UserIds, b \in BOOLEAN :
        update_user_permissions(u, id, b)

UsersDeactivate ==
    \E u \in UsersCallers, id \in UserIds : deactivate_user(u, id)

UsersActivate == \E u \in UsersCallers, id \in UserIds : activate_user(u, id)

UsersDelete == \E u \in UsersCallers, id \in UserIds : delete_user(u, id)

NextUsers ==
    \/ UsersCreate \/ UsersUpdateMe \/ UsersUpdate \/ UsersPermissions
    \/ UsersDeactivate \/ UsersActivate \/ UsersDelete

SpecUsers == InitUsers /\ [][NextUsers]_vars

----------------------------------------------------------------------------
(* Users *)

AdminRequests ==
    {"update_user", "update_user_permissions", "deactivate_user",
     "activate_user", "delete_user"}

\* An existing user that admin u may not manage: an admin, a super admin,
\* or a user of another tenant.
OutOfScope(u, id) ==
    /\ users[id].exists
    /\ \/ users[id].role \in {"admin", "super_admin"}
       \/ users[id].company_id # users[u].company_id

\* C19: an update_user, update_user_permissions, deactivate_user,
\* activate_user or delete_user request of an admin on a user whose role is
\* admin or super admin, or whose tenant is not the admin's, is answered 403
\* and leaves every user unchanged.
C19_AdminScope ==
    [][last'.op \in AdminRequests =>
          LET u == last'.caller
              id == last'.arg
          IN  (/\ Authenticated(u)
               /\ users[u].role = "admin"
               /\ OutOfScope(u, id))
                 => /\ last'.status = 403
                    /\ users' = users]_vars

\* C19 witness: an admin's request on another admin of its own tenant was
\* answered 403.
C19_Witness ==
    /\ last.op \in AdminRequests
    /\ users[last.caller].role = "admin"
    /\ last.arg # last.caller
    /\ users[last.arg].role = "admin"
    /\ users[last.arg].company_id = users[last.caller].company_id
    /\ last.status = 403

UsersRequests == AdminRequests \cup {"create_user", "update_my_profile"}

\* C20: a users-router request of a caller of role user changes no user's
\* role, company_id, can_add_devices or is_active and deletes or adds no
\* user: update_my_profile changes at most the caller's full_name and
\* profile_picture_url, and every other writing request is answered 403 and
\* changes nothing.
C20_UserFrame ==
    [][(/\ last'.op \in UsersRequests
        /\ Authenticated(last'.caller)
        /\ users[last'.caller].role = "user") =>
          LET u == last'.caller
          IN  /\ \A id \in UserIds :
                    /\ users'[id].exists = users[id].exists
                    /\ users'[id].role = users[id].role
                    /\ users'[id].company_id = users[id].company_id
                    /\ users'[id].can_add_devices = users[id].can_add_devices
                    /\ users'[id].is_active = users[id].is_active
              /\ last'.op = "update_my_profile" =>
                    /\ last'.status = 200
                    /\ users' =
                          [users EXCEPT
                              ![u].full_name = users'[u].full_name,
                              ![u].profile_picture_url =
                                  users'[u].profile_picture_url]
              /\ last'.op # "update_my_profile" =>
                    /\ last'.status = 403
                    /\ users' = users]_vars

\* C20 witness: a user has updated its own profile; its full_name is the
\* one it sent, its role and is_active are what they were.
C20_Witness ==
    /\ last.op = "update_my_profile"
    /\ last.status = 200
    /\ users[last.caller].role = "user"
    /\ users[last.caller].full_name = "Ann"
    /\ users[last.caller].is_active

----------------------------------------------------------------------------
(* The bootstrap: a system whose users table is empty, the sign-ins of two *)
(* Google accounts, and the user administration any signed-in user may     *)
(* attempt.                                                                *)

BootEmails == {"root@corp", "new1@mail"}
BootStates == {NULL, "i1"}
BootCreateEmails == {"user@t1"}
BootUpdates == {d \in UserUpdates : d.fields_set = {"role", "is_active"}}

InitBoot ==
    /\ now = 0
    /\ users = [u \in UserIds |-> NoUser]
    /\ companies = Tenants
    /\ devices = [d \in DeviceIds |-> NoDevice]
    /\ invitations = [i \in InvIds |-> NoInvitation]
    /\ last = NoRequest
    /\ procs = << >>
    /\ issued = {}
    /\ settings = StartupSettings
    /\ probe = << >>

BootSignIn ==
    \E email \in BootEmails, state \in BootStates : google_callback(email, state)

BootCreate ==
    \E u \in UserIds, email \in BootCreateEmails, role \in CreateRoles,
       company_id \in CreateCompanies :
        create_user(u, email, role, company_id)

BootUpdate ==
    \E u \in UserIds, id \in UserIds, data \in BootUpdates :
        update_user(u, id, data)

BootDeactivate == \E u \in UserIds, id \in UserIds : deactivate_user(u, id)

BootDelete == \E u \in UserIds, id \in UserIds : delete_user(u, id)

NextBoot ==
    \/ BootSignIn \/ BootCreate \/ BootUpdate \/ BootDeactivate \/ BootDelete

SpecBoot == InitBoot /\ [][NextBoot]_vars

\* The users table before and after a step differ in exactly one new row.
CreatedUsers == {u \in UserIds : ~users[u].exists /\ users'[u].exists}

EverCreated == issued # {}

\* C22: once any user has been created, a google_callback for an unknown
\* email is rejected and creates no further super_admin, whatever
\* google_callback, create_user, deactivate_user and delete_user requests
\* came before.
C22_BootstrapOnce ==
    [][(EverCreated /\ last'.op = "google_callback"
                    /\ ~UserWithEmail(last'.arg)) =>
          /\ last'.status = 403
          /\ \A u \in CreatedUsers : users'[u].role # "super_admin"]_vars

\* C23: every user whose role is admin or user has a company_id; super_admin
\* is the only role found with company_id null.
C23_OnlySuperAdminWithoutCompany ==
    \A u \in UserIds :
        (users[u].exists /\ users[u].company_id = NULL) =>
            users[u].role = "super_admin"

----------------------------------------------------------------------------
(* models/company.py and routers/companies.py: the capacity of a tenant    *)
(* and the requests of the super admin on a tenant.                        *)

\* Company.get_active_users_count
Company_get_active_users_count(t) ==
    Cardinality({u \in UserIds : /\ users[u].exists
                                 /\ users[u].company_id = t
                                 /\ users[u].is_active})

\* Company.can_add_user
Company_can_add_user(t) ==
    Company_get_active_users_count(t) < companies[t].max_users

\* CompanyUpdate bodies: the fields sent, and a value for each field.
CompanyUpdates ==
    [fields_set : {{"max_users"}, {"is_active"}}, max_users : {1, 3},
     max_devices : {1}, is_active : {FALSE}]

\* update_company: setattr for every field sent
UpdatedCompany(row, data) ==
    [row EXCEPT
        !.max_users = IF "max_users" \in data.fields_set
                      THEN data.max_users ELSE @,
        !.max_devices = IF "max_devices" \in data.fields_set
                        THEN data.max_devices ELSE @,
        !.is_active = IF "is_active" \in data.fields_set
                      THEN data.is_active ELSE @]

update_company(u, company_id, data) ==
    LET status == IF RequireSuperAdmin(u) # 200 THEN RequireSuperAdmin(u)
                  ELSE IF ~companies[company_id].exists THEN 404
                  ELSE 200
    IN  /\ companies' =
              IF status = 200
              THEN [companies EXCEPT
                       ![company_id] = UpdatedCompany(companies[company_id], data)]
              ELSE companies
        /\ last' = Request("update_company", u, company_id, status)
        /\ UNCHANGED <<settings, now, users, devices, invitations, procs, probe, issued>>

----------------------------------------------------------------------------
(* The capacity of tenant t1, which starts with as many active users as    *)
(* its max_users allows: the requests of the super admin and of the admin  *)
(* of t1 on users, and of the super admin on the tenant.                   *)

CapacityCallers == {"u1", "u2"}
CapacityTargets == {"u1", "u4"}
CapacityEmails == {"new1@mail"}

InitCapacity ==
    /\ now = 0
    /\ users = Directory
    /\ companies = [Tenants EXCEPT !["t1"].max_users = 2]
    /\ devices = [d \in DeviceIds |-> NoDevice]
    /\ invitations = [i \in InvIds |-> NoInvitation]
    /\ last = NoRequest
    /\ procs = << >>
    /\ issued = {}
    /\ settings = StartupSettings
    /\ probe = << >>

CapacityCreate ==
    \E u \in CapacityCallers, email \in CapacityEmails, role \in CreateRoles,
       company_id \in CreateCompanies :
        create_user(u, email, role, company_id)

CapacityUpdate ==
    \E u \in CapacityCallers, id \in CapacityTargets, data \in BootUpdates :
        update_user(u, id, data)

CapacityDeactivate ==
    \E u \in CapacityCallers, id \in CapacityTargets : deactivate_user(u, id)

CapacityActivate ==
    \E u \in CapacityCallers, id \in CapacityTargets : activate_user(u, id)

CapacityDelete ==
    \E u \in CapacityCallers, id \in CapacityTargets : delete_user(u, id)

CapacityUpdateCompany ==
    \E u \in CapacityCallers, data \in CompanyUpdates :
        update_company(u, "t1", data)

NextCapacity ==
    \/ CapacityCreate \/ CapacityUpdate \/ CapacityDeactivate
    \/ CapacityActivate \/ CapacityDelete \/ CapacityUpdateCompany

SpecCapacity == InitCapacity /\ [][NextCapacity]_vars

\* C24: the number of active users of a tenant never exceeds its max_users.
C24_ActiveUsersWithinLimit ==
    \A t \in CompanyIds :
        Company_get_active_users_count(t) <= companies[t].max_users

\* C25: a create_user request of the super admin for an existing tenant and
\* an unused email is rejected with the capacity error (400) and adds no
\* user when the tenant's active users equal max_users, and creates the user
\* in that tenant when the tenant is below max_users.
C25_CreateChecksCapacity ==
    [][\A u \in UserIds, email \in CapacityEmails, role \in CreateRoles,
          t \in CompanyIds :
          (/\ create_user(u, email, role, t)
           /\ RequireSuperAdmin(u) = 200
           /\ ~UserWithEmail(email)
           /\ companies[t].exists
           /\ Company_get_active_users_count(t) <= companies[t].max_users) =>
              IF Company_get_active_users_count(t) = companies[t].max_users
              THEN /\ last'.status = 400
                   /\ users' = users
              ELSE /\ last'.status = 201
                   /\ Cardinality(CreatedUsers) = 1
                   /\ \A v \in CreatedUsers :
                         /\ users'[v].email = email
                         /\ users'[v].company_id = t]_vars

----------------------------------------------------------------------------
(* Company.deactivate and Company.activate, and the two requests of the    *)
(* super admin that call them.                                             *)

\* Variant: the UPDATE of users has no WHERE clause.
DeactivatedUsers_Everyone(t) ==
    [u \in UserIds |->
        IF users[u].exists
        THEN [users[u] EXCEPT !.is_active = FALSE] ELSE users[u]]

\* query(User).filter(User.company_id == self.id).update({"is_active": False})
DeactivatedUsers(t) ==
    [u \in UserIds |->
        IF users[u].exists /\ users[u].company_id = t
        THEN [users[u] EXCEPT !.is_active = FALSE] ELSE users[u]]

\* query(Device).filter(Device.company_id == self.id).update({"is_online": False})
DeactivatedDevices(t) ==
    [d \in DeviceIds |->
        IF devices[d].exists /\ devices[d].company_id = t
        THEN [devices[d] EXCEPT !.is_online = FALSE] ELSE devices[d]]

Company_deactivate(t) ==
    /\ companies[t].exists
    /\ companies' = [companies EXCEPT ![t].is_active = FALSE]
    /\ users' = DeactivatedUsers(t)
    /\ devices' = DeactivatedDevices(t)
    /\ last' = Request("Company.deactivate", NULL, t, 0)
    /\ UNCHANGED <<settings, now, invitations, procs, probe, issued>>

Company_activate(t) ==
    /\ companies[t].exists
    /\ companies' = [companies EXCEPT ![t].is_active = TRUE]
    /\ last' = Request("Company.activate", NULL, t, 0)
    /\ UNCHANGED <<settings, now, users, devices, invitations, procs, probe, issued>>

deactivate_company(u, company_id) ==
    LET status == IF RequireSuperAdmin(u) # 200 THEN RequireSuperAdmin(u)
                  ELSE IF ~companies[company_id].exists THEN 404
                  ELSE 200
    IN  /\ companies' = IF status = 200
                        THEN [companies EXCEPT ![company_id].is_active = FALSE]
                        ELSE companies
        /\ users' = IF status = 200 THEN DeactivatedUsers(company_id) ELSE users
        /\ devices' = IF status = 200 THEN DeactivatedDevices(company_id)
                      ELSE devices
        /\ last' = Request("deactivate_company", u, company_id, status)
        /\ UNCHANGED <<settings, now, invitations, procs, probe, issued>>

activate_company(u, company_id) ==
    LET status == IF RequireSuperAdmin(u) # 200 THEN RequireSuperAdmin(u)
                  ELSE IF ~companies[company_id].exists THEN 404
                  ELSE 200
    IN  /\ companies' = IF status = 200
                        THEN [companies EXCEPT ![company_id].is_active = TRUE]
                        ELSE companies
        /\ last' = Request("activate_company", u, company_id, status)
        /\ UNCHANGED <<settings, now, users, devices, invitations, procs, probe, issued>>

----------------------------------------------------------------------------
(* Tenants with members, devices and a pending invitation: every           *)
(* combination of active and inactive members, of devices that are linked  *)
(* to a member of either tenant or wait for their pairing, online or not.  *)

TenantDirectories ==
    {[u \in UserIds |->
         IF u \in off THEN [Directory[u] EXCEPT !.is_active = FALSE]
         ELSE Directory[u]] : off \in SUBSET {"u3", "u4"}}

\* A device as link_device leaves it for user u.
LinkedDevice(d, u, online) ==
    [LinkToUserRow(NewDevice("tv", NULL, 0), u, Directory[u].company_id, 0)
        EXCEPT !.is_online = online]

TenantDeviceRows(d) ==
    {NewDevice("tv", IF d = "d1" THEN "0420" ELSE "7392", 0)}
      \cup {LinkedDevice(d, u, online) : u \in {"u3", "u4"},
                                         online \in BOOLEAN}

TenantInvitations ==
    [i \in InvIds |->
        IF i = 1 THEN NewInvitation(1, "new1@mail", "user", "u2", 0)
        ELSE NoInvitation]

TenantCallers == {"u1", "u2"}

InitTenant ==
    /\ now = 0
    /\ users \in TenantDirectories
    /\ companies = Tenants
    /\ devices \in {f \in [DeviceIds -> UNION {TenantDeviceRows(d) : d \in DeviceIds}] :
                       \A d \in DeviceIds : f[d] \in TenantDeviceRows(d)}
    /\ invitations = TenantInvitations
    /\ last = NoRequest
    /\ procs = << >>
    /\ issued = {}
    /\ settings = StartupSettings
    /\ probe = << >>

ModelDeactivate == \E t \in CompanyIds : Company_deactivate(t)

ModelActivate == \E t \in CompanyIds : Company_activate(t)

RouterDeactivate ==
    \E u \in TenantCallers, t \in CompanyIds : deactivate_company(u, t)

RouterActivate ==
    \E u \in TenantCallers, t \in CompanyIds : activate_company(u, t)

NextTenant ==
    \/ ModelDeactivate \/ ModelActivate \/ RouterDeactivate \/ RouterActivate

SpecTenant == InitTenant /\ [][NextTenant]_vars

\* Steps in which Company.deactivate ran to completion for tenant last'.arg.
DeactivateCompleted ==
    \/ last'.op = "Company.deactivate"
    \/ last'.op = "deactivate_company" /\ last'.status = 200

\* C26: after Company.deactivate for tenant t, t is inactive, every user of
\* t is inactive and every device of t is offline; no user, device or
\* invitation row is deleted, and users and devices of other tenants are
\* unchanged.
C26_DeactivateCascades ==
    [][DeactivateCompleted =>
          LET t == last'.arg
          IN  /\ ~companies'[t].is_active
              /\ companies'[t].exists
              /\ \A u \in UserIds :
                    /\ users'[u].exists = users[u].exists
                    /\ (users[u].exists /\ users[u].company_id = t) =>
                           ~users'[u].is_active
                    /\ users[u].company_id # t => users'[u] = users[u]
              /\ \A d \in DeviceIds :
                    /\ devices'[d].exists = devices[d].exists
                    /\ (devices[d].exists /\ devices[d].company_id = t) =>
                           ~devices'[d].is_online
                    /\ devices[d].company_id # t => devices'[d] = devices[d]
              /\ invitations' = invitations]_vars

C26_Witness ==
    /\ last.op = "Company.deactivate"
    /\ last.arg = "t1"
    /\ ~companies["t1"].is_active
    /\ ~users["u2"].is_active /\ ~users["u4"].is_active
    /\ users["u3"].is_active
    /\ invitations[1].exists
    /\ \E d, e \in DeviceIds :
          /\ devices[d].company_id = "t1" /\ ~devices[d].is_online
          /\ devices[e].company_id = "t2" /\ devices[e].is_online

----------------------------------------------------------------------------
(* Device.check_if_offline, Device.mark_offline_if_needed and the read of  *)
(* a user's devices, routers/devices.py get_my_devices.                    *)

\* last_seen < utcnow() - timedelta(minutes=timeout_minutes)
Device_check_if_offline(row, t) ==
    IF IsNull(row.last_seen) THEN TRUE
    ELSE row.last_seen < t - DEVICE_OFFLINE_TIMEOUT_MINUTES

MarkOfflineRow(row, t) ==
    IF Device_check_if_offline(row, t)
    THEN [row EXCEPT !.is_online = FALSE] ELSE row

Device_mark_offline_if_needed(d) ==
    /\ devices[d].exists
    /\ CommitDevice(d, MarkOfflineRow(devices[d], now),
                    "Device.mark_offline_if_needed")

\* One entry of the list get_my_devices returns.
DeviceSummary(d, row) ==
    [device_name |-> row.device_name, id |-> d, is_online |-> row.is_online,
     is_linked |-> row.is_linked, last_seen |-> row.last_seen,
     created_at |-> row.created_at]

get_my_devices(u) ==
    /\ last' = IF Authenticated(u)
               THEN Response("get_my_devices", u, u, 200,
                       {DeviceSummary(d, devices[d]) :
                           d \in {e \in DeviceIds : /\ devices[e].exists
                                                    /\ devices[e].user_id = u}})
               ELSE Response("get_my_devices", u, u, 401, {})
    /\ UNCHANGED <<settings, now, users, companies, devices, invitations, procs, probe,
                   issued>>

----------------------------------------------------------------------------
(* A linked device of user u4 that sends heartbeats, the sweep that marks  *)
(* silent devices offline, the reads of u4, and the clock in minutes.      *)

BeatDevices == {"d1"}
BeatReaders == {"u4"}

InitBeat ==
    /\ now = 0
    /\ users = Directory
    /\ companies = Tenants
    /\ devices = [d \in DeviceIds |->
                     IF d \in BeatDevices THEN LinkedDevice(d, "u4", TRUE)
                     ELSE NewDevice("tv", "7392", 0)]
    /\ invitations = [i \in InvIds |-> NoInvitation]
    /\ last = NoRequest
    /\ procs = << >>
    /\ issued = {}
    /\ settings = StartupSettings
    /\ probe = << >>

BeatHeartbeat == \E d \in BeatDevices : Device_update_heartbeat(d)

BeatSweep == \E d \in BeatDevices : Device_mark_offline_if_needed(d)

BeatRead == \E u \in BeatReaders : get_my_devices(u)

TickBeat ==
    /\ now + 1 <= MaxBeatTime
    /\ now' = now + 1
    /\ UNCHANGED <<settings, users, companies, devices, invitations, last, procs, probe,
                   issued>>

NextBeat == BeatHeartbeat \/ BeatSweep \/ BeatRead \/ TickBeat

SpecBeat == InitBeat /\ [][NextBeat]_vars

\* C27: a read of a device whose last heartbeat was at time T reports
\* is_online = false at every time later than T plus
\* DEVICE_OFFLINE_TIMEOUT_MINUTES and is_online = true at every earlier
\* time, and leaves is_linked as it was.
C27_OnlineDerivedOnRead ==
    [][(last'.op = "get_my_devices" /\ last'.status = 200 /\ now' = now) =>
          \A d \in DeviceIds :
              (/\ devices[d].exists
               /\ devices[d].user_id = last'.caller
               /\ ~IsNull(devices[d].last_seen)) =>
                  /\ devices'[d].is_linked = devices[d].is_linked
                  /\ \E e \in last'.body :
                        /\ e.id = d
                        /\ e.is_linked = devices[d].is_linked
                        /\ now > devices[d].last_seen
                                   + DEVICE_OFFLINE_TIMEOUT_MINUTES
                              => ~e.is_online
                        /\ now < devices[d].last_seen
                                   + DEVICE_OFFLINE_TIMEOUT_MINUTES
                              => e.is_online]_vars

----------------------------------------------------------------------------
(* Device.unlink_from_user on the object it is called on: the linked rows  *)
(* it may be given and the codes str(random.randint(1000, 9999)) may       *)
(* return.                                                                 *)

DigitChars == <<"0", "1", "2", "3", "4", "5", "6", "7", "8", "9">>

\* Python's str() of a non-negative int
RECURSIVE str(_)
str(n) ==
    IF n < 10 THEN DigitChars[n + 1]
    ELSE str(n \div 10) \o DigitChars[(n % 10) + 1]

\* Values random.randint(1000, 9999) returns: both ends and one between.
UnlinkDraws == {1000, 7392, 9999}

UnlinkInputs ==
    {[LinkedDevice(d, u, online) EXCEPT
         !.device_name = name, !.current_playlist_id = playlist,
         !.last_seen = seen, !.linked_at = linked] :
       d \in {"d1"}, u \in {"u3", "u4"}, online \in BOOLEAN,
       name \in {"tv", "lobby"}, playlist \in {NULL, "p1"},
       seen \in {1, 3}, linked \in {0, 1}}

InitUnlink ==
    /\ now = 0
    /\ users = Directory
    /\ companies = Tenants
    /\ devices = [d \in DeviceIds |-> NoDevice]
    /\ invitations = [i \in InvIds |-> NoInvitation]
    /\ last = NoRequest
    /\ procs = << >>
    /\ issued = {}
    /\ settings = StartupSettings
    /\ probe \in {[op |-> "none", row |-> r, out |-> r] : r \in UnlinkInputs}

CallUnlink ==
    /\ probe.op = "none"
    /\ \E n \in UnlinkDraws :
          probe' = [probe EXCEPT !.op = "Device.unlink_from_user",
                                 !.out = UnlinkRow(probe.row, str(n))]
    /\ UNCHANGED <<settings, now, users, companies, devices, invitations, last, procs,
                   issued>>

NextUnlink == CallUnlink

SpecUnlink == InitUnlink /\ [][NextUnlink]_vars

\* C28: unlink_from_user on a linked device leaves user_id, company_id,
\* current_playlist_id and linked_at null, is_linked false and device_code
\* a 4-digit string, and changes none of device_name, is_online, last_seen
\* and created_at.
C28_UnlinkFrame ==
    probe.op = "Device.unlink_from_user" =>
        /\ probe.out.user_id = NULL
        /\ probe.out.company_id = NULL
        /\ probe.out.current_playlist_id = NULL
        /\ IsNull(probe.out.linked_at)
        /\ ~probe.out.is_linked
        /\ probe.out.device_code # NULL
        /\ Len(probe.out.device_code) = 4
        /\ probe.out.exists = probe.row.exists
        /\ probe.out.device_name = probe.row.device_name
        /\ probe.out.is_online = probe.row.is_online
        /\ probe.out.last_seen = probe.row.last_seen
        /\ probe.out.created_at = probe.row.created_at

C28_Witness ==
    /\ probe.op = "Device.unlink_from_user"
    /\ probe.row.is_linked /\ probe.row.user_id = "u4"
    /\ probe.row.current_playlist_id = "p1"
    /\ probe.row.is_online
    /\ probe.out.device_code = "1000"
    /\ ~probe.out.is_linked

\* C29: a generate_device_code request always succeeds and leaves the
\* device with a code that no other device holds, also when the code first
\* drawn is the device_code of another device.
C29_GenerateAvoidsCollision ==
    [][(last'.op = "generate_device_code" /\ now' = now) =>
          /\ last'.status = 200
          /\ devices'[last'.arg].exists
          /\ devices'[last'.arg].device_code # NULL
          /\ ~CodeTaken(devices', last'.arg,
                        devices'[last'.arg].device_code)]_vars

----------------------------------------------------------------------------
(* utils/encryption.py: encrypt_data and decrypt_data read                 *)
(* settings.ENCRYPTION_KEY when they are called; rotate_encryption_key     *)
(* assigns to it.  A ciphertext is the plaintext sealed under the key it   *)
(* was derived from: AES-GCM opens it under that key and no other.         *)

EncryptionKeys == {ENCRYPTION_KEY, "key1", "key2"}
Plaintexts == {"secret"}

Sealed(key, plaintext) == [key |-> key, plaintext |-> plaintext]

\* encrypt_data(plaintext) under the key settings holds
Encrypted(plaintext) == Returned(Sealed(settings.ENCRYPTION_KEY, plaintext))

\* decrypt_data(ciphertext) under the key settings holds
Decrypted(ciphertext) ==
    IF ciphertext.key = settings.ENCRYPTION_KEY
    THEN Returned(ciphertext.plaintext)
    ELSE Raised("ValueError")

encrypt_data(plaintext) ==
    /\ last' = Response("encrypt_data", NULL, plaintext, 0, Encrypted(plaintext))
    /\ UNCHANGED <<settings, now, users, companies, devices, invitations,
                   procs, probe, issued>>

decrypt_data(ciphertext) ==
    /\ last' = Response("decrypt_data", NULL, ciphertext, 0,
                        Decrypted(ciphertext))
    /\ UNCHANGED <<settings, now, users, companies, devices, invitations,
                   procs, probe, issued>>

\* The frame of a rotate_encryption_key call: its arguments, its locals and
\* the statement it executes next.
NoRotation ==
    [pc |-> "idle", old_key |-> NULL, new_key |-> NULL,
     encrypted_data |-> Sealed(NULL, NULL), original_key |-> NULL,
     plaintext |-> NULL, result |-> Raised(NULL)]

\* original_key = settings.ENCRYPTION_KEY; settings.ENCRYPTION_KEY = old_key
RotateSetOld(p, old_key, new_key, encrypted_data) ==
    /\ procs[p].pc = "idle"
    /\ procs' = [procs EXCEPT ![p] = [NoRotation EXCEPT
                    !.pc = "decrypt", !.old_key = old_key, !.new_key = new_key,
                    !.encrypted_data = encrypted_data,
                    !.original_key = settings.ENCRYPTION_KEY]]
    /\ settings' = [settings EXCEPT !.ENCRYPTION_KEY = old_key]
    /\ UNCHANGED <<now, users, companies, devices, invitations, last, probe,
                   issued>>

\* plaintext = decrypt_data(encrypted_data); settings.ENCRYPTION_KEY = new_key
RotateDecrypt(p) ==
    /\ procs[p].pc = "decrypt"
    /\ LET r == Decrypted(procs[p].encrypted_data)
       IN  IF r.ok
           THEN /\ procs' = [procs EXCEPT ![p].pc = "encrypt",
                                          ![p].plaintext = r.value]
                /\ settings' = [settings EXCEPT
                                   !.ENCRYPTION_KEY = procs[p].new_key]
           ELSE /\ procs' = [procs EXCEPT ![p].pc = "except"]
                /\ settings' = settings
    /\ UNCHANGED <<now, users, companies, devices, invitations, last, probe,
                   issued>>

\* new_encrypted = encrypt_data(plaintext);
\* settings.ENCRYPTION_KEY = original_key; return new_encrypted
RotateEncrypt(p) ==
    /\ procs[p].pc = "encrypt"
    /\ procs' = [procs EXCEPT ![p].pc = "idle",
                              ![p].result = Encrypted(procs[p].plaintext)]
    /\ settings' = [settings EXCEPT !.ENCRYPTION_KEY = procs[p].original_key]
    /\ UNCHANGED <<now, users, companies, devices, invitations, last, probe,
                   issued>>

\* except: settings.ENCRYPTION_KEY = original_key; raise ValueError
RotateExcept(p) ==
    /\ procs[p].pc = "except"
    /\ procs' = [procs EXCEPT ![p].pc = "idle",
                              ![p].result = Raised("ValueError")]
    /\ settings' = [settings EXCEPT !.ENCRYPTION_KEY = procs[p].original_key]
    /\ UNCHANGED <<now, users, companies, devices, invitations, last, probe,
                   issued>>

rotate_encryption_key(p) ==
    \/ \E old_key, new_key \in EncryptionKeys, key \in EncryptionKeys,
          plaintext \in Plaintexts :
          RotateSetOld(p, old_key, new_key, Sealed(key, plaintext))
    \/ RotateDecrypt(p)
    \/ RotateEncrypt(p)
    \/ RotateExcept(p)

----------------------------------------------------------------------------
(* One rotate_encryption_key call at a time, and the encrypt_data and      *)
(* decrypt_data calls of other requests at any moment of it.               *)

InitRotate ==
    /\ now = 0
    /\ users = Directory
    /\ companies = Tenants
    /\ devices = [d \in DeviceIds |-> NoDevice]
    /\ invitations = [i \in InvIds |-> NoInvitation]
    /\ last = NoRequest
    /\ procs = [p \in {"p1"} |-> NoRotation]
    /\ issued = {}
    /\ settings = StartupSettings
    /\ probe = << >>

RotateCall == \E p \in DOMAIN procs : rotate_encryption_key(p)

EncryptCall == \E plaintext \in Plaintexts : encrypt_data(plaintext)

DecryptCall ==
    \E key \in EncryptionKeys, plaintext \in Plaintexts :
        decrypt_data(Sealed(key, plaintext))

NextRotate == RotateCall \/ EncryptCall \/ DecryptCall

SpecRotate == InitRotate /\ [][NextRotate]_vars

\* C30: settings.ENCRYPTION_KEY has its startup value in every reachable
\* state, the states within a rotate_encryption_key call included, so that
\* every encrypt_data call seals under the configured key.
C30_KeyReadOnly ==
    /\ settings.ENCRYPTION_KEY = StartupSettings.ENCRYPTION_KEY
    /\ last.op = "encrypt_data" =>
           last.body = Returned(Sealed(StartupSettings.ENCRYPTION_KEY,
                                       last.arg))

----------------------------------------------------------------------------
(* encrypt_data and decrypt_data on the bytes they exchange: the salt and  *)
(* the nonce encrypt_data draws, the blob salt + nonce + ciphertext it     *)
(* returns in base64, and the slices decrypt_data cuts the blob into.      *)

\* secrets.token_bytes(16) in _derive_key, secrets.token_bytes(12) in
\* encrypt_data
SALT_BYTES == 16
NONCE_BYTES == 12

\* Byte strings token_bytes(n) may return: n equal bytes, or a ramp.
token_bytes(n) ==
    {[i \in 1 .. n |-> b] : b \in {0, 255}} \cup {[i \in 1 .. n |-> i]}

\* PBKDF2-HMAC-SHA256 of the password under the salt
derive_key(password, salt) == [password |-> password, salt |-> salt]

\* AESGCM(key).encrypt(nonce, data, None): ciphertext and tag as one unit
AESGCM_encrypt(key, nonce, data) ==
    <<[key |-> key, nonce |-> nonce, data |-> data]>>

\* AESGCM(key).decrypt(nonce, data, None): the tag verifies under the same
\* key and nonce only
AESGCM_decrypt(key, nonce, data) ==
    IF Len(data) = 1 /\ data[1].key = key /\ data[1].nonce = nonce
    THEN Returned(data[1].data)
    ELSE Raised("InvalidTag")

\* str.encode('utf-8') / bytes.decode('utf-8'), base64.b64encode(..).decode /
\* base64.b64decode(..encode)
utf8_encode(s) == <<"utf-8", s>>
utf8_decode(b) == b[2]
b64encode(b) == <<"base64", b>>
b64decode(s) == s[2]

EncryptData(password, plaintext, salt, nonce) ==
    IF plaintext = ""
    THEN Raised("ValueError")
    ELSE LET key == derive_key(password, salt)
             ciphertext == AESGCM_encrypt(key, nonce, utf8_encode(plaintext))
         IN  Returned(b64encode(salt \o nonce \o ciphertext))

\* Variant: decrypt_data takes the first 12 bytes as the salt and the next 16
\* as the nonce.
DecryptData_Swapped(password, ciphertext) ==
    IF ciphertext = ""
    THEN Raised("ValueError")
    ELSE LET encrypted_data == b64decode(ciphertext)
             salt == SubSeq(encrypted_data, 1, NONCE_BYTES)
             nonce == SubSeq(encrypted_data, NONCE_BYTES + 1,
                             SALT_BYTES + NONCE_BYTES)
             ciphertext_bytes == SubSeq(encrypted_data,
                                        SALT_BYTES + NONCE_BYTES + 1,
                                        Len(encrypted_data))
             r == AESGCM_decrypt(derive_key(password, salt), nonce,
                                 ciphertext_bytes)
         IN  IF r.ok THEN Returned(utf8_decode(r.value))
             ELSE Raised("ValueError")

DecryptData(password, ciphertext) ==
    IF ciphertext = ""
    THEN Raised("ValueError")
    ELSE LET encrypted_data == b64decode(ciphertext)
             salt == SubSeq(encrypted_data, 1, SALT_BYTES)
             nonce == SubSeq(encrypted_data, SALT_BYTES + 1,
                             SALT_BYTES + NONCE_BYTES)
             ciphertext_bytes == SubSeq(encrypted_data,
                                        SALT_BYTES + NONCE_BYTES + 1,
                                        Len(encrypted_data))
             r == AESGCM_decrypt(derive_key(password, salt), nonce,
                                 ciphertext_bytes)
         IN  IF r.ok THEN Returned(utf8_decode(r.value))
             ELSE Raised("ValueError")

CipherPlaintexts == {"s", "secret", "Test sensitive data 123!@#"}

InitCipher ==
    /\ now = 0
    /\ users = Directory
    /\ companies = Tenants
    /\ devices = [d \in DeviceIds |-> NoDevice]
    /\ invitations = [i \in InvIds |-> NoInvitation]
    /\ last = NoRequest
    /\ procs = << >>
    /\ issued = {}
    /\ settings \in {[ENCRYPTION_KEY |-> k] : k \in EncryptionKeys}
    /\ probe \in {[op |-> "none", plaintext |-> p, blob |-> Raised("none"),
                   out |-> Raised("none")] : p \in CipherPlaintexts}

CallEncrypt ==
    /\ probe.op = "none"
    /\ \E salt \in token_bytes(SALT_BYTES), nonce \in token_bytes(NONCE_BYTES) :
          probe' = [probe EXCEPT
                       !.op = "encrypt_data",
                       !.blob = EncryptData(settings.ENCRYPTION_KEY,
                                            probe.plaintext, salt, nonce)]
    /\ UNCHANGED <<settings, now, users, companies, devices, invitations, last,
                   procs, issued>>

CallDecrypt ==
    /\ probe.op = "encrypt_data"
    /\ probe.blob.ok
    /\ probe' = [probe EXCEPT
                    !.op = "decrypt_data",
                    !.out = DecryptData(settings.ENCRYPTION_KEY,
                                        probe.blob.value)]
    /\ UNCHANGED <<settings, now, users, companies, devices, invitations, last,
                   procs, issued>>

NextCipher == CallEncrypt \/ CallDecrypt

SpecCipher == InitCipher /\ [][NextCipher]_vars

\* C31: for every non-empty plaintext P and a fixed master key,
\* decrypt_data(encrypt_data(P)) returns P, whatever salt and nonce
\* encrypt_data drew.
C31_RoundTrip ==
    /\ probe.op = "encrypt_data" => probe.blob.ok
    /\ probe.op = "decrypt_data" => probe.out = Returned(probe.plaintext)

C31_Witness ==
    /\ probe.op = "decrypt_data"
    /\ probe.plaintext = "secret"
    /\ probe.out = Returned("secret")
    /\ SubSeq(b64decode(probe.blob.value), 1, SALT_BYTES)
           = [i \in 1 .. SALT_BYTES |-> 255]
    /\ SubSeq(b64decode(probe.blob.value), SALT_BYTES + 1,
              SALT_BYTES + NONCE_BYTES) = [i \in 1 .. NONCE_BYTES |-> i]

----------------------------------------------------------------------------
(* routers/users.py get_user, and the requests on /{user_id} as an admin   *)
(* sees them answered for ids of its tenant, of another tenant and of no   *)
(* user.                                                                   *)

get_user(u, id) ==
    LET status == IF ~Authenticated(u) THEN 401
                  ELSE IF ~users[id].exists THEN 404
                  ELSE IF users[u].role = "super_admin" THEN 200
                  ELSE IF users[u].role = "admin"
                  THEN IF users[id].company_id # users[u].company_id
                       THEN 403 ELSE 200
                  ELSE IF id # u THEN 403 ELSE 200
    IN  /\ last' = Request("get_user", u, id, status)
        /\ UNCHANGED <<settings, now, users, companies, devices, invitations,
                       procs, probe, issued>>

LookupDirectories == {Directory, [Directory EXCEPT !["u4"] = NoUser]}

InitLookup ==
    /\ now = 0
    /\ users \in LookupDirectories
    /\ companies = Tenants
    /\ devices = [d \in DeviceIds |-> NoDevice]
    /\ invitations = [i \in InvIds |-> NoInvitation]
    /\ last = NoRequest
    /\ procs = << >>
    /\ issued = {}
    /\ settings = StartupSettings
    /\ probe = << >>

LookupGet == \E u \in UsersCallers, id \in UserIds : get_user(u, id)

LookupUpdate ==
    \E u \in UsersCallers, id \in UserIds, data \in BootUpdates :
        update_user(u, id, data)

LookupDeactivate ==
    \E u \in UsersCallers, id \in UserIds : deactivate_user(u, id)

LookupDelete == \E u \in UsersCallers, id \in UserIds : delete_user(u, id)

NextLookup ==
    LookupGet \/ LookupUpdate \/ LookupDeactivate \/ LookupDelete

SpecLookup == InitLookup /\ [][NextLookup]_vars

\* C32: to an admin, get_user, update_user, deactivate_user and delete_user
\* answer for the id of a user of another tenant what they answer for an id
\* that no user has, 404, and change nothing.
C32_ForeignLooksMissing ==
    [][(/\ last'.op \in {"get_user", "update_user", "deactivate_user",
                         "delete_user"}
        /\ last'.caller # NULL
        /\ Authenticated(last'.caller)
        /\ users[last'.caller].role = "admin"
        /\ users[last'.arg].exists
        /\ users[last'.arg].company_id # users[last'.caller].company_id) =>
          /\ last'.status = 404
          /\ users' = users]_vars

\* C33: a device linked by a successful link_device request has a linked_at:
\* the request stamps it together with is_linked, user_id and company_id.
C33_LinkStampsLinkedAt ==
    [][(last'.op = "link_device" /\ last'.status = 200 /\ now' = now) =>
          \A d \in DeviceIds :
              (~devices[d].is_linked /\ devices'[d].is_linked) =>
                  /\ devices'[d].user_id = last'.caller
                  /\ ~IsNull(devices'[d].linked_at)]_vars

----------------------------------------------------------------------------
(* The device requests, Device.unlink_from_user and the clock: a device    *)
(* that is unlinked, or registers again, long after its row was created.   *)

NextExpiry == NextRouter \/ ModelUnlink

SpecExpiry == InitDevices /\ [][NextExpiry]_vars

\* Steps that leave device last'.arg with a freshly generated code.
FreshCode ==
    /\ now' = now
    /\ \/ last'.op = "Device.unlink_from_user"
       \/ /\ last'.op = "generate_device_code"
          /\ last'.status = 200
          /\ devices[last'.arg].exists
    /\ ~devices'[last'.arg].is_linked
    /\ devices'[last'.arg].device_code # NULL

\* C34: right after unlink_from_user, and after generate_device_code for a
\* device already registered, is_code_expired() is false for the new code,
\* however long ago the device row was created.
C34_FreshCodeNotExpired ==
    [][FreshCode => ~Device_is_code_expired(devices'[last'.arg], now')]_vars

----------------------------------------------------------------------------
(* Two rotate_encryption_key calls that run concurrently: their statements *)
(* interleave at the assignments to settings.ENCRYPTION_KEY.               *)

InitRotateTwo ==
    /\ now = 0
    /\ users = Directory
    /\ companies = Tenants
    /\ devices = [d \in DeviceIds |-> NoDevice]
    /\ invitations = [i \in InvIds |-> NoInvitation]
    /\ last = NoRequest
    /\ procs = [p \in Procs |-> NoRotation]
    /\ issued = {}
    /\ settings = StartupSettings
    /\ probe = << >>

\* Both calls rotate to the same new key; the old key and the key the data
\* was sealed under vary.
RotateTwoCall ==
    \E p \in Procs :
        \/ \E old_key \in EncryptionKeys, key \in {ENCRYPTION_KEY, "key1"} :
              RotateSetOld(p, old_key, "key2", Sealed(key, "secret"))
        \/ RotateDecrypt(p)
        \/ RotateEncrypt(p)
        \/ RotateExcept(p)

NextRotateTwo == RotateTwoCall

SpecRotateTwo == InitRotateTwo /\ [][NextRotateTwo]_vars

\* C35: once both rotate_encryption_key calls have returned or raised,
\* settings.ENCRYPTION_KEY is the value it had before the first call
\* started, under every interleaving of the two calls.
C35_KeyRestored ==
    (\A p \in Procs : procs[p].pc = "idle") =>
        settings.ENCRYPTION_KEY = StartupSettings.ENCRYPTION_KEY

----------------------------------------------------------------------------
(* google_callback as it runs against PostgreSQL (READ COMMITTED): the     *)
(* SELECT by email and the count of users, then the INSERT or UPDATE and   *)
(* the commit.  Requests interleave between the reads and the commit;      *)
(* nothing locks the users table in between.                               *)

NoCallback ==
    [pc |-> "idle", email |-> NULL, found |-> NULL, user_count |-> 0,
     status |-> 0]

\* user = db.query(User).filter(User.email == email).first();
\* user_count = db.query(User).count()
CallbackRead(p, email) ==
    /\ procs[p].pc = "idle"
    /\ procs' = [procs EXCEPT ![p] =
          [pc |-> "commit", email |-> email,
           found |-> IF UserWithEmail(email)
                     THEN CHOOSE v \in UserIds :
                              users[v].exists /\ users[v].email = email
                     ELSE NULL,
           user_count |-> IF UserWithEmail(email) THEN 0 ELSE UserCount,
           status |-> 0]]
    /\ UNCHANGED <<settings, now, users, companies, devices, invitations, last,
                   probe, issued>>

\* The write and db.commit(): the UPDATE of the row found, the INSERT of the
\* first user, which UNIQUE(email) refuses when the address was inserted in
\* the meantime, or the 403 raised before any write.
CallbackCommit(p) ==
    LET f == procs[p]
        status == IF f.found # NULL THEN 200
                  ELSE IF f.user_count # 0 THEN 403
                  ELSE IF UserWithEmail(f.email) THEN 500
                  ELSE 200
        u == IF f.found # NULL THEN f.found
             ELSE CHOOSE v \in FreeUserIds : TRUE
        row == IF f.found # NULL THEN LoginRow(users[u], f.email, now)
               ELSE FirstUser(f.email, now)
    IN  /\ f.pc = "commit"
        /\ (status = 200 /\ f.found = NULL) => FreeUserIds # {}
        /\ users' = IF status = 200 THEN [users EXCEPT ![u] = row] ELSE users
        /\ issued' = IF status = 200
                     THEN issued \cup
                          Minted(create_token_response(u, row, now), NoToken)
                     ELSE issued
        /\ procs' = [procs EXCEPT ![p].pc = "idle", ![p].status = status]
        /\ last' = Request("google_callback", IF status = 200 THEN u ELSE NULL,
                           f.email, status)
        /\ UNCHANGED <<settings, now, companies, devices, invitations, probe>>

InitRace ==
    /\ now = 0
    /\ users = [u \in UserIds |-> NoUser]
    /\ companies = Tenants
    /\ devices = [d \in DeviceIds |-> NoDevice]
    /\ invitations = [i \in InvIds |-> NoInvitation]
    /\ last = NoRequest
    /\ procs = [p \in Procs |-> NoCallback]
    /\ issued = {}
    /\ settings = StartupSettings
    /\ probe = << >>

RaceRead == \E p \in Procs, email \in BootEmails : CallbackRead(p, email)

RaceCommit == \E p \in Procs : CallbackCommit(p)

NextRace == RaceRead \/ RaceCommit

SpecRace == InitRace /\ [][NextRace]_vars

\* C36: of concurrent google_callback requests for distinct unknown emails
\* that start from an empty users table, at most one creates a user, so at
\* most one super_admin exists.
C36_OneBootstrap ==
    /\ UserCount <= 1
    /\ Cardinality({u \in UserIds : /\ users[u].exists
                                    /\ users[u].role = "super_admin"}) <= 1

----------------------------------------------------------------------------
(* The token requests of SpecToken together with the other two ways an     *)
(* account is deactivated: update_user with is_active, and                 *)
(* Company.deactivate for the user's tenant.                               *)

RevokeUpdate ==
    \E u \in TokenAdmins, id \in TokenUsers, data \in BootUpdates :
        update_user(u, id, data)

RevokeCompany == Company_deactivate("t1")

NextRevoke == NextToken \/ RevokeUpdate \/ RevokeCompany

SpecRevoke == InitToken /\ [][NextRevoke]_vars

\* A token the server minted whose subject is an existing, inactive user.
OfInactiveUser(tok) ==
    /\ tok \in {m.token : m \in issued}
    /\ users[uuid_UUID(tok.sub)].exists
    /\ ~users[uuid_UUID(tok.sub)].is_active

\* C37: while a user's is_active is false, every request behind
\* get_current_user that presents an access token of that user is answered
\* 401, and every refresh with a refresh token of that user fails and puts
\* no token in circulation, however the account was deactivated.
C37_DeactivationRevokes ==
    [][(/\ last'.op \in {"get_current_user_info", "refresh_token"}
        /\ now' = now
        /\ OfInactiveUser(last'.arg)
        /\ \/ get_current_user_info(last'.arg)
           \/ refresh_token(last'.arg)) =>
          /\ last'.status = 401
          /\ issued' = issued]_vars

C37_Witness ==
    /\ last.op = "get_current_user_info"
    /\ last.status = 401
    /\ last.arg.type = "access"
    /\ SignedUnexpired(last.arg, now)
    /\ OfInactiveUser(last.arg)
    /\ ~companies["t1"].is_active

\* C38: no access or refresh token is minted for a user whose is_active is
\* false: every token put in circulation by google_callback or by a refresh
\* has an existing, active user as its subject.
C38_MintedForActiveOnly ==
    [][\A m \in issued' \ issued :
          /\ users'[uuid_UUID(m.token.sub)].exists
          /\ users'[uuid_UUID(m.token.sub)].is_active]_vars

----------------------------------------------------------------------------
(* Sign-ins of existing users and the requests that write user rows, by    *)
(* callers of every role, with bodies that carry a role.                   *)

RolesEmails == {"admin@t1", "user@t1"}
RolesTargets == {"u2", "u4"}

RolesSignIn == \E email \in RolesEmails : google_callback(email, NULL)

RolesUpdateMe ==
    \E u \in UserIds, data \in BootUpdates : update_my_profile(u, data)

RolesUpdate ==
    \E u \in UserIds, id \in RolesTargets, data \in BootUpdates :
        update_user(u, id, data)

RolesPermissions ==
    \E u \in UserIds, id \in RolesTargets, b \in BOOLEAN :
        update_user_permissions(u, id, b)

RolesActivate == \E u \in UserIds, id \in RolesTargets : activate_user(u, id)

RolesDeactivate ==
    \E u \in UserIds, id \in RolesTargets : deactivate_user(u, id)

NextRoles ==
    \/ RolesSignIn \/ RolesUpdateMe \/ RolesUpdate \/ RolesPermissions
    \/ RolesActivate \/ RolesDeactivate

SpecRoles == InitToken /\ [][NextRoles]_vars

====
